---------------------------- MODULE Spec2Model ----------------------------
(***************************************************************************)
(* Code-Analy: the issue detector (src/src/code_analy/analyzer.py) and the *)
(* refactoring engine (src/src/code_analy/refactor.py).                    *)
(*                                                                         *)
(* A source text is a sequence of characters (one-character strings).      *)
(* The syntax tree is the sequence of its nodes in document order, each    *)
(* node a record naming its parent and the field of the parent it sits in. *)
(***************************************************************************)
EXTENDS Integers, Sequences, FiniteSets, TLC

VARIABLES
    source_code,  \* CodeAnalyzer.source_code
    tree,         \* CodeAnalyzer.tree, or SyntaxError when ast.parse raised
    issues,       \* CodeAnalyzer.issues
    pc,           \* the next step of CodeAnalyzer.analyze
    returned,     \* the issue lists returned by the analyze runs so far
    refactor,     \* the CodeRefactor instance: [source_code, lines]
    request,      \* the last apply_refactoring invocation
    result        \* the RefactoringResult of the last invocation

vars == <<source_code, tree, issues, pc, returned, refactor, request, result>>

(***************************************************************************)
(* Characters and strings                                                  *)
(***************************************************************************)
NL == "\n"
SP == " "
\* the form feed: white space to the parser, a line boundary to str.splitlines
FF == "\f"
\* a combining mark, such as U+0301 or an Indic vowel sign: it continues an
\* identifier, and is not \w
Mark == "U+0301"

Letters == {"a","b","c","d","e","f","g","h","i","j","k","l","m","n","o","p",
            "q","r","s","t","u","v","w","x","y","z","_"}
Digits == {"0","1","2","3","4","5","6","7","8","9"}

\* \w of the re module
IsWordChar(c) == c \in Letters \cup Digits

\* \s of the re module, and the characters str.strip() removes
IsSpace(c) == c \in {SP, NL, FF, "\t"}

\* the character can continue a Python identifier
IsIdentChar(c) == IsWordChar(c) \/ c = Mark

Max(a, b) == IF a >= b THEN a ELSE b
Min(a, b) == IF a <= b THEN a ELSE b

\* the sequence f, evaluated once (TLC keeps [k \in 1..n |-> e] unevaluated)
AsTuple(f) == f \o <<>>

\* s[i:j] of Python, 0-based half-open
Slice(s, i, j) == IF j <= i THEN <<>> ELSE SubSeq(s, i + 1, Min(j, Len(s)))

\* s[i:] of Python
From(s, i) == Slice(s, i, Len(s))

\* s.startswith(p, at)
StartsWithAt(s, p, at) == /\ at + Len(p) <= Len(s)
                          /\ \A k \in 1..Len(p) : s[at + k] = p[k]

StartsWith(s, p) == StartsWithAt(s, p, 0)

\* p in s
Contains(s, p) == \E at \in 0..(Len(s) - Len(p)) : StartsWithAt(s, p, at)

\* str.lstrip(), str.rstrip(), str.strip()
RECURSIVE LeadingFrom(_, _)
LeadingFrom(s, k) ==
    IF k > Len(s) \/ ~IsSpace(s[k]) THEN k - 1 ELSE LeadingFrom(s, k + 1)

LeadingSpaces(s) == LeadingFrom(s, 1)

RECURSIVE TrailingFrom(_, _)
TrailingFrom(s, k) ==
    IF k < 1 \/ ~IsSpace(s[k]) THEN Len(s) - k ELSE TrailingFrom(s, k - 1)

TrailingSpaces(s) == TrailingFrom(s, Len(s))

LStrip(s) == From(s, LeadingSpaces(s))
RStrip(s) == Slice(s, 0, Len(s) - TrailingSpaces(s))
Strip(s)  == LStrip(RStrip(s))

\* the first position from k on that holds character c, or Len(s) + 1
RECURSIVE Find(_, _, _)
Find(s, c, k) == IF k > Len(s) \/ s[k] = c THEN k ELSE Find(s, c, k + 1)

\* the pieces of s that end at a character of breaks or at the end of s; no
\* piece begins after a final break
SplitAt(s, breaks, k) ==
    LET ends == SelectSeq(AsTuple([i \in 1..Len(s) |-> i]),
                          LAMBDA i : i >= k /\ s[i] \in breaks)
        m == Len(ends)
        rest == IF m = 0 THEN k ELSE ends[m] + 1
    IN  AsTuple([j \in 1..m |->
                    SubSeq(s, IF j = 1 THEN k ELSE ends[j - 1] + 1, ends[j] - 1)])
        \o (IF rest <= Len(s) THEN <<SubSeq(s, rest, Len(s))>> ELSE <<>>)

\* str.splitlines(): the line feed and the form feed both end a line
SplitLines(s) == SplitAt(s, {NL, FF}, 1)

\* the lines ast.parse numbers: only the line feed ends a line
PhysicalLines(s) == SplitAt(s, {NL}, 1)

\* the indentation of a line as the tokenizer measures it: a form feed in
\* the leading white space starts the count again
Indentation(line) ==
    LET lead == LeadingSpaces(line)
        ffs == {k \in 1..lead : line[k] = FF}
    IN  IF ffs = {} THEN lead ELSE lead - (CHOOSE k \in ffs : \A j \in ffs : j <= k)

\* '\n'.join(lines)
RECURSIVE JoinRange(_, _, _)
JoinRange(ls, lo, hi) ==
    IF lo > hi THEN <<>>
    ELSE IF lo = hi THEN ls[lo]
    ELSE JoinRange(ls, lo, (lo + hi) \div 2) \o <<NL>>
         \o JoinRange(ls, (lo + hi) \div 2 + 1, hi)

JoinLines(ls) == JoinRange(ls, 1, Len(ls))


(***************************************************************************)
(* ast.parse, for the subset of Python the inputs are written in: one      *)
(* statement per line, blocks by indentation, double-quoted strings,       *)
(* expressions without keyword arguments.  Expression nodes (Name,         *)
(* Attribute, Constant) are kept flat under their statement; the checks    *)
(* read only their type, identifier and position.                          *)
(***************************************************************************)
None == <<>>

k_def      == <<"d","e","f">>
k_async    == <<"a","s","y","n","c">>
k_class    == <<"c","l","a","s","s">>
k_if       == <<"i","f">>
k_else     == <<"e","l","s","e">>
k_for      == <<"f","o","r">>
k_in       == <<"i","n">>
k_while    == <<"w","h","i","l","e">>
k_with     == <<"w","i","t","h">>
k_try      == <<"t","r","y">>
k_except   == <<"e","x","c","e","p","t">>
k_finally  == <<"f","i","n","a","l","l","y">>
k_return   == <<"r","e","t","u","r","n">>
k_raise    == <<"r","a","i","s","e">>
k_break    == <<"b","r","e","a","k">>
k_continue == <<"c","o","n","t","i","n","u","e">>
k_pass     == <<"p","a","s","s">>
k_import   == <<"i","m","p","o","r","t">>
k_from     == <<"f","r","o","m">>
k_as       == <<"a","s">>
k_self     == <<"s","e","l","f">>
k_cls      == <<"c","l","s">>

Keywords == {k_def, k_async, k_class, k_if, k_else, k_for, k_in, k_while,
             k_with, k_try, k_except, k_finally, k_return, k_raise, k_break,
             k_continue, k_pass, k_import, k_from, k_as}

\* the end (0-based, exclusive) of the run of identifier characters starting at i
RECURSIVE WordEnd(_, _)
WordEnd(s, i) == IF i >= Len(s) \/ ~IsIdentChar(s[i + 1]) THEN i ELSE WordEnd(s, i + 1)

Token(kind, text, col) == [kind |-> kind, text |-> text, col |-> col]

\* col_offset counts UTF-8 bytes: the offset of the 0-based character position
\* i of s, where the combining mark is the one character of two bytes
Utf8Offset(s, i) == i + Cardinality({k \in 1..i : s[k] = Mark})

\* the tokens of one line from 0-based position i on; a comment ends the line
RECURSIVE TokenizeFrom(_, _)
TokenizeFrom(s, i) ==
    IF i >= Len(s) THEN <<>>
    ELSE LET c == s[i + 1] IN
         IF IsSpace(c) THEN TokenizeFrom(s, i + 1)
         ELSE IF c = "#" THEN <<>>
         ELSE IF IsWordChar(c) THEN
              LET j == WordEnd(s, i)
                  w == Slice(s, i, j)
                  kind == IF c \in Digits
                          THEN (IF \A k \in 1..Len(w) : w[k] \in Digits THEN "num" ELSE "err")
                          ELSE IF w \in Keywords THEN "kw" ELSE "name"
              IN  <<Token(kind, w, Utf8Offset(s, i))>> \o TokenizeFrom(s, j)
         ELSE IF c = "\"" THEN
              LET k == Find(s, "\"", i + 2) IN
              IF k <= Len(s)
              THEN <<Token("str", Slice(s, i, k), Utf8Offset(s, i))>> \o TokenizeFrom(s, k)
              ELSE <<Token("err", From(s, i), Utf8Offset(s, i))>>
         ELSE IF c = Mark THEN <<Token("err", From(s, i), Utf8Offset(s, i))>>
         ELSE <<Token("op", <<c>>, Utf8Offset(s, i))>> \o TokenizeFrom(s, i + 1)

Tokenize(line) == TokenizeFrom(line, 0)

IsOp(tok, c) == tok.kind = "op" /\ tok.text = <<c>>
IsKw(tok, w) == tok.kind = "kw" /\ tok.text = w
IsOperand(tok) == tok.kind \in {"name", "num", "str"}

\* a token sequence that can be an expression: no malformed token, no
\* statement keyword, and no two operands side by side
ExprOk(toks) ==
    /\ \A k \in 1..Len(toks) : toks[k].kind # "err"
    /\ \A k \in 1..Len(toks) : toks[k].kind = "kw" => toks[k].text = k_in
    /\ \A k \in 1..(Len(toks) - 1) : ~(IsOperand(toks[k]) /\ IsOperand(toks[k + 1]))

NoArgs == [posonlyargs |-> <<>>, args |-> <<>>, vararg |-> None,
           kwonlyargs |-> <<>>, kwarg |-> None]

Node(type, parent, field, lineno, col, name) ==
    [type |-> type, parent |-> parent, field |-> field, lineno |-> lineno,
     col_offset |-> col, name |-> name, value |-> None, args |-> NoArgs,
     names |-> <<>>]

\* the first token of the attribute chain a.b.c that ends at token k
RECURSIVE ChainStart(_, _)
ChainStart(toks, k) ==
    IF k > 2 /\ IsOp(toks[k - 1], ".") /\ toks[k - 2].kind = "name"
    THEN ChainStart(toks, k - 2) ELSE k

\* the expression nodes of a token sequence, in source order
RECURSIVE ExprNodes(_, _, _, _, _)
ExprNodes(toks, k, parent, field, lineno) ==
    IF k > Len(toks) THEN <<>>
    ELSE LET t == toks[k]
             afterDot == k > 1 /\ IsOp(toks[k - 1], ".")
             \* the value of the attribute access is a plain Name
             baseIsName == /\ k > 2
                           /\ toks[k - 2].kind = "name"
                           /\ ~(k > 3 /\ IsOp(toks[k - 3], "."))
             here ==
                IF t.kind = "name" /\ afterDot
                THEN <<[Node("Attribute", parent, field, lineno,
                             toks[ChainStart(toks, k)].col, t.text)
                        EXCEPT !.value = IF baseIsName THEN toks[k - 2].text ELSE None]>>
                ELSE IF t.kind = "name"
                THEN <<Node("Name", parent, field, lineno, t.col, t.text)>>
                ELSE IF t.kind \in {"num", "str"}
                THEN <<[Node("Constant", parent, field, lineno, t.col, None)
                        EXCEPT !.value = t.text]>>
                ELSE <<>>
         IN  here \o ExprNodes(toks, k + 1, parent, field, lineno)


\* the token sequence cut at its commas
RECURSIVE SplitComma(_)
SplitComma(toks) ==
    IF \E k \in 1..Len(toks) : IsOp(toks[k], ",")
    THEN LET k == CHOOSE k \in 1..Len(toks) :
                      IsOp(toks[k], ",") /\ \A j \in 1..(k - 1) : ~IsOp(toks[j], ",")
         IN  <<SubSeq(toks, 1, k - 1)>> \o SplitComma(SubSeq(toks, k + 1, Len(toks)))
    ELSE <<toks>>

\* a.b.c as tokens: names separated by dots
IsDotted(toks) ==
    /\ Len(toks) % 2 = 1
    /\ \A k \in 1..Len(toks) :
          IF k % 2 = 1 THEN toks[k].kind = "name" ELSE IsOp(toks[k], ".")

RECURSIVE TokenText(_)
TokenText(toks) == IF Len(toks) = 0 THEN <<>> ELSE toks[1].text \o TokenText(Tail(toks))

\* one alias of an import statement: NAME [as NAME]; dotted names only after
\* a plain import, '*' only after a from-import
AliasOf(toks, plain) ==
    LET hasAs == Len(toks) >= 3 /\ IsKw(toks[Len(toks) - 1], k_as)
        head  == IF hasAs THEN SubSeq(toks, 1, Len(toks) - 2) ELSE toks
        okHead == IF plain THEN IsDotted(head)
                  ELSE Len(head) = 1 /\ (head[1].kind = "name" \/ (IsOp(head[1], "*") /\ ~hasAs))
    IN  [ok |-> okHead /\ (hasAs => toks[Len(toks)].kind = "name"),
         name |-> TokenText(head),
         asname |-> IF hasAs THEN toks[Len(toks)].text ELSE None]

AliasList(toks, plain) ==
    LET groups == SplitComma(toks)
        al == [k \in 1..Len(groups) |-> AliasOf(groups[k], plain)]
    IN  [ok |-> /\ Len(toks) > 0
                /\ \A k \in 1..Len(groups) : Len(groups[k]) > 0 /\ al[k].ok
                /\ (\E k \in 1..Len(al) : al[k].name = <<"*">>) => Len(al) = 1,
         names |-> [k \in 1..Len(al) |-> [name |-> al[k].name, asname |-> al[k].asname]]]

\* the parameter list of a def, group by group: NAME, '/', '*', '*NAME', '**NAME'
RECURSIVE ParamFold(_, _, _)
ParamFold(groups, k, acc) ==
    IF k > Len(groups) \/ ~acc.ok THEN acc
    ELSE LET g == groups[k]
             bad == [acc EXCEPT !.ok = FALSE]
             next ==
               IF Len(g) = 0
               THEN (IF k = Len(groups) /\ k > 1 THEN acc ELSE bad)
               ELSE IF acc.mode = "end" THEN bad
               ELSE IF Len(g) = 1 /\ g[1].kind = "name"
               THEN (IF acc.mode = "pos"
                     THEN [acc EXCEPT !.a.args = Append(@, g[1].text)]
                     ELSE [acc EXCEPT !.a.kwonlyargs = Append(@, g[1].text)])
               ELSE IF Len(g) = 1 /\ IsOp(g[1], "/")
               THEN (IF acc.mode = "pos" /\ acc.a.posonlyargs = <<>> /\ acc.a.args # <<>>
                     THEN [acc EXCEPT !.a.posonlyargs = acc.a.args, !.a.args = <<>>]
                     ELSE bad)
               ELSE IF Len(g) = 1 /\ IsOp(g[1], "*")
               THEN (IF acc.mode = "pos" /\ k < Len(groups) /\ Len(groups[k + 1]) = 1
                     THEN [acc EXCEPT !.mode = "kw"] ELSE bad)
               ELSE IF Len(g) = 2 /\ IsOp(g[1], "*") /\ g[2].kind = "name"
               THEN (IF acc.mode = "pos"
                     THEN [acc EXCEPT !.mode = "kw", !.a.vararg = g[2].text] ELSE bad)
               ELSE IF Len(g) = 3 /\ IsOp(g[1], "*") /\ IsOp(g[2], "*") /\ g[3].kind = "name"
               THEN [acc EXCEPT !.mode = "end", !.a.kwarg = g[3].text]
               ELSE bad
         IN  ParamFold(groups, k + 1, next)

Arguments(toks) ==
    IF Len(toks) = 0 THEN [ok |-> TRUE, a |-> NoArgs, mode |-> "pos"]
    ELSE ParamFold(SplitComma(toks), 1, [ok |-> TRUE, a |-> NoArgs, mode |-> "pos"])


NoPending == [owner |-> 0, field |-> ""]

ParseStart ==
    [ok |-> TRUE,
     nodes |-> <<Node("Module", 0, "", 0, 0, None)>>,
     stack |-> <<[indent |-> 0, owner |-> 1, field |-> "body", last |-> 0]>>,
     pending |-> NoPending]

Fail(st) == [st EXCEPT !.ok = FALSE]

\* the block a statement indented by d belongs to: the block a header has
\* just opened, or an enclosing block of exactly that indentation
Enter(st, d) ==
    LET top == st.stack[Len(st.stack)] IN
    IF st.pending.owner # 0
    THEN IF d > top.indent
         THEN [st EXCEPT !.stack = Append(@, [indent |-> d, owner |-> st.pending.owner,
                                              field |-> st.pending.field, last |-> 0]),
                         !.pending = NoPending]
         ELSE Fail(st)
    ELSE LET keep == SelectSeq(st.stack, LAMBDA f : f.indent <= d) IN
         IF Len(keep) > 0 /\ keep[Len(keep)].indent = d
         THEN [st EXCEPT !.stack = keep]
         ELSE Fail(st)

HasChildIn(nodes, n, field) ==
    \E k \in 1..Len(nodes) : nodes[k].parent = n /\ nodes[k].field = field

\* append a statement node, with its expression nodes, to the current block
AddStmt(st, node, exprs, opens) ==
    LET top == st.stack[Len(st.stack)]
        idx == Len(st.nodes) + 1
    IN  [st EXCEPT !.nodes = (@ \o <<node>>) \o exprs,
                   !.stack[Len(st.stack)].last = idx,
                   !.pending = IF opens THEN [owner |-> idx, field |-> "body"]
                               ELSE NoPending]

\* one logical line, already placed in its block
Statement(st, toks, lineno) ==
    LET top   == st.stack[Len(st.stack)]
        idx   == Len(st.nodes) + 1
        n     == Len(toks)
        first == toks[1]
        col   == first.col
        colon == n >= 2 /\ IsOp(toks[n], ":")
        rest  == SubSeq(toks, 2, n)
        inner == SubSeq(toks, 2, n - 1)
        mk(type, name) == Node(type, top.owner, top.field, lineno, col, name)
        ex(ts, field) == ExprNodes(ts, 1, idx, field, lineno)
        prev  == top.last
        ptype == IF prev = 0 THEN "" ELSE st.nodes[prev].type
        isAsync == IsKw(first, k_async) /\ n >= 2 /\ IsKw(toks[2], k_def)
        dtoks == IF isAsync THEN Tail(toks) ELSE toks
    IN
    IF IsKw(first, k_def) \/ isAsync THEN
        LET m == Len(dtoks)
            shape == /\ m >= 5 /\ dtoks[2].kind = "name" /\ IsOp(dtoks[3], "(")
                     /\ IsOp(dtoks[m - 1], ")") /\ IsOp(dtoks[m], ":")
            a == Arguments(SubSeq(dtoks, 4, m - 2))
        IN  IF shape /\ a.ok
            THEN AddStmt(st, [mk(IF isAsync THEN "AsyncFunctionDef" ELSE "FunctionDef",
                                 dtoks[2].text) EXCEPT !.args = a.a], <<>>, TRUE)
            ELSE Fail(st)
    ELSE IF IsKw(first, k_class) THEN
        IF n = 3 /\ toks[2].kind = "name" /\ colon
        THEN AddStmt(st, mk("ClassDef", toks[2].text), <<>>, TRUE) ELSE Fail(st)
    ELSE IF IsKw(first, k_if) \/ IsKw(first, k_while) \/ IsKw(first, k_with) THEN
        IF n >= 3 /\ colon /\ ExprOk(inner)
        THEN AddStmt(st, mk(IF IsKw(first, k_if) THEN "If"
                            ELSE IF IsKw(first, k_while) THEN "While" ELSE "With", None),
                     ex(inner, IF IsKw(first, k_with) THEN "items" ELSE "test"), TRUE)
        ELSE Fail(st)
    ELSE IF IsKw(first, k_for) THEN
        IF n >= 5 /\ colon /\ toks[2].kind = "name" /\ IsKw(toks[3], k_in)
              /\ ExprOk(SubSeq(toks, 4, n - 1))
        THEN AddStmt(st, mk("For", None),
                     ex(<<toks[2]>>, "target") \o ex(SubSeq(toks, 4, n - 1), "iter"), TRUE)
        ELSE Fail(st)
    ELSE IF IsKw(first, k_try) THEN
        IF n = 2 /\ colon THEN AddStmt(st, mk("Try", None), <<>>, TRUE) ELSE Fail(st)
    ELSE IF IsKw(first, k_else) THEN
        IF /\ n = 2 /\ colon /\ ptype \in {"If", "For", "While", "Try"}
           /\ ~HasChildIn(st.nodes, prev, "orelse")
           /\ ~HasChildIn(st.nodes, prev, "finalbody")
           /\ (ptype = "Try" => HasChildIn(st.nodes, prev, "handlers"))
        THEN [st EXCEPT !.pending = [owner |-> prev, field |-> "orelse"]]
        ELSE Fail(st)
    ELSE IF IsKw(first, k_finally) THEN
        IF n = 2 /\ colon /\ ptype = "Try" /\ ~HasChildIn(st.nodes, prev, "finalbody")
        THEN [st EXCEPT !.pending = [owner |-> prev, field |-> "finalbody"]]
        ELSE Fail(st)
    ELSE IF IsKw(first, k_except) THEN
        IF /\ colon /\ ptype = "Try" /\ ExprOk(inner)
           /\ ~HasChildIn(st.nodes, prev, "orelse")
           /\ ~HasChildIn(st.nodes, prev, "finalbody")
        THEN [st EXCEPT !.nodes = (@ \o <<Node("ExceptHandler", prev, "handlers",
                                               lineno, col, None)>>)
                                  \o ex(inner, "type"),
                        !.pending = [owner |-> idx, field |-> "body"]]
        ELSE Fail(st)
    ELSE IF IsKw(first, k_return) \/ IsKw(first, k_raise) THEN
        IF ExprOk(rest)
        THEN AddStmt(st, mk(IF IsKw(first, k_return) THEN "Return" ELSE "Raise", None),
                     ex(rest, IF IsKw(first, k_return) THEN "value" ELSE "exc"), FALSE)
        ELSE Fail(st)
    ELSE IF IsKw(first, k_break) \/ IsKw(first, k_continue) \/ IsKw(first, k_pass) THEN
        IF n = 1
        THEN AddStmt(st, mk(IF IsKw(first, k_break) THEN "Break"
                            ELSE IF IsKw(first, k_continue) THEN "Continue" ELSE "Pass",
                            None), <<>>, FALSE)
        ELSE Fail(st)
    ELSE IF IsKw(first, k_import) THEN
        LET al == AliasList(rest, TRUE) IN
        IF al.ok THEN AddStmt(st, [mk("Import", None) EXCEPT !.names = al.names], <<>>, FALSE)
        ELSE Fail(st)
    ELSE IF IsKw(first, k_from) THEN
        IF \E k \in 3..(n - 1) : IsKw(toks[k], k_import)
        THEN LET k  == CHOOSE k \in 3..(n - 1) : IsKw(toks[k], k_import)
                 al == AliasList(SubSeq(toks, k + 1, n), FALSE)
             IN  IF IsDotted(SubSeq(toks, 2, k - 1)) /\ al.ok
                 THEN AddStmt(st, [mk("ImportFrom", None) EXCEPT
                                      !.names = al.names,
                                      !.value = TokenText(SubSeq(toks, 2, k - 1))],
                              <<>>, FALSE)
                 ELSE Fail(st)
        ELSE Fail(st)
    ELSE IF ExprOk(toks) /\ first.kind # "kw" /\ ~colon
    THEN AddStmt(st, mk(IF \E k \in 1..n : IsOp(toks[k], "=") THEN "Assign" ELSE "Expr",
                        None), ex(toks, "value"), FALSE)
    ELSE Fail(st)

\* the statements of lines[lo..hi] added to st, the range taken by halves
RECURSIVE ParseRange(_, _, _, _)
ParseRange(lines, lo, hi, st) ==
    IF ~st.ok \/ lo > hi THEN st
    ELSE IF lo < hi
    THEN ParseRange(lines, (lo + hi) \div 2 + 1, hi,
                    ParseRange(lines, lo, (lo + hi) \div 2, st))
    ELSE LET toks == Tokenize(lines[lo]) IN
         IF Len(toks) = 0 THEN st
         ELSE LET st1 == Enter(st, Indentation(lines[lo])) IN
              IF st1.ok THEN Statement(st1, toks, lo) ELSE st1

\* the end of the text: no block is still awaited, and every try has a
\* handler or a finally clause
ParseEnd(st) ==
    IF ~st.ok THEN st
    ELSE [st EXCEPT !.ok =
             /\ st.pending.owner = 0
             /\ \A k \in 1..Len(st.nodes) : st.nodes[k].type = "Try" =>
                    HasChildIn(st.nodes, k, "handlers") \/ HasChildIn(st.nodes, k, "finalbody")]

ParseLines(lines, n, st) == ParseEnd(ParseRange(lines, n, Len(lines), st))

\* ast.parse(source_code): the nodes in document order, or a SyntaxError
Parse(text) ==
    LET st == ParseLines(PhysicalLines(text), 1, ParseStart)
    IN  [ok |-> st.ok, nodes |-> IF st.ok THEN st.nodes ELSE <<>>]


(***************************************************************************)
(* The syntax tree as the checks read it                                   *)
(***************************************************************************)
IndexSeq(t) == AsTuple([k \in 1..Len(t) |-> k])

RECURSIVE NodeDepth(_, _)
NodeDepth(t, n) == IF t[n].parent = 0 THEN 0 ELSE 1 + NodeDepth(t, t[n].parent)

RECURSIVE LevelsFrom(_, _, _)
LevelsFrom(t, d, maxd) ==
    IF d > maxd THEN <<>>
    ELSE SelectSeq(IndexSeq(t), LAMBDA k : NodeDepth(t, k) = d) \o LevelsFrom(t, d + 1, maxd)

\* ast.walk(tree): breadth first, the children of a node in source order
Walk(t) ==
    IF Len(t) = 0 THEN <<>>
    ELSE LET maxd == CHOOSE d \in 0..Len(t) :
                        /\ \E k \in 1..Len(t) : NodeDepth(t, k) = d
                        /\ \A k \in 1..Len(t) : NodeDepth(t, k) <= d
         IN  LevelsFrom(t, 0, maxd)

\* node in ast.walk(root)
RECURSIVE InWalkOf(_, _, _)
InWalkOf(t, node, root) ==
    node = root \/ (t[node].parent # 0 /\ InWalkOf(t, t[node].parent, root))

\* a statement list of a node: node.body, node.orelse, node.finalbody
StmtList(t, n, field) ==
    SelectSeq(IndexSeq(t), LAMBDA k : t[k].parent = n /\ t[k].field = field)

\* node.end_lineno: the last line of the node's last statement
EndLineno(t, n) ==
    LET ls == {t[k].lineno : k \in {j \in 1..Len(t) : InWalkOf(t, j, n)}}
    IN  CHOOSE l \in ls : \A m \in ls : m <= l

FunctionTypes == {"FunctionDef", "AsyncFunctionDef"}

(***************************************************************************)
(* CodeAnalyzer                                                            *)
(***************************************************************************)
DefaultMaxParams  == 5
DefaultMaxLines   == 50
DefaultMaxDepth   == 3
DefaultMinLines   == 5
WindowSpread      == 20

Message(fmt, args) == [fmt |-> fmt, args |-> args]

CodeIssue(line, column, issue_type, message, severity) ==
    [line |-> line, column |-> column, issue_type |-> issue_type,
     message |-> message, severity |-> severity]

\* the concatenation of ss[lo..hi], by halves
RECURSIVE FlattenRange(_, _, _)
FlattenRange(ss, lo, hi) ==
    IF lo > hi THEN <<>>
    ELSE IF lo = hi THEN ss[lo]
    ELSE FlattenRange(ss, lo, (lo + hi) \div 2) \o FlattenRange(ss, (lo + hi) \div 2 + 1, hi)

Flatten(ss) == FlattenRange(ss, 1, Len(ss))

\* the issues a for loop over seq appends: Emit(x) is the list the loop
\* body appends for x
Collect(seq, Emit(_)) == Flatten(AsTuple([k \in 1..Len(seq) |-> Emit(seq[k])]))

\* a test for a function defined directly in a class body
IsDirectMethod(t, node) ==
    t[node].parent # 0 /\ t[t[node].parent].type = "ClassDef"

\* CodeAnalyzer._is_method
IsMethod(t, node) ==
    \E parent \in 1..Len(t) : t[parent].type = "ClassDef" /\ InWalkOf(t, node, parent)

\* ParamCount with the discount applied to every first parameter named
\* self or cls, whether or not the function is beneath a class
ParamCountAnySelf(t, node) ==
    LET a == t[node].args
        param_count == Len(a.args)
        discounted == IF param_count > 0 /\ a.args[1] \in {k_self, k_cls}
                      THEN param_count - 1 ELSE param_count
    IN  discounted + Len(a.posonlyargs) + Len(a.kwonlyargs)

\* the count _check_too_many_parameters computes for one function node
ParamCount(t, node) ==
    LET a == t[node].args
        param_count == Len(a.args)
        discounted == IF /\ IsMethod(t, node) /\ param_count > 0
                         /\ a.args[1] \in {k_self, k_cls}
                      THEN param_count - 1 ELSE param_count
    IN  discounted + Len(a.posonlyargs) + Len(a.kwonlyargs)

\* CodeAnalyzer._check_too_many_parameters
TooManyParametersIssues(t, max_params) ==
    LET Emit(node) ==
          IF t[node].type \in FunctionTypes /\ ParamCount(t, node) > max_params
          THEN <<CodeIssue(t[node].lineno, t[node].col_offset, "too_many_parameters",
                           Message("Function '{}' has {} parameters (max: {})",
                                   <<t[node].name, ParamCount(t, node), max_params>>),
                           "warning")>>
          ELSE <<>>
    IN  Collect(Walk(t), Emit)


\* the (name, node) assignments imports[name] = node, in the order made
ImportAssignments(t) ==
    LET OfNode(node) ==
          IF t[node].type \in {"Import", "ImportFrom"}
          THEN [k \in 1..Len(t[node].names) |->
                  [name |-> IF t[node].names[k].asname # None
                            THEN t[node].names[k].asname ELSE t[node].names[k].name,
                   node |-> node]]
          ELSE <<>>
    IN  Collect(Walk(t), OfNode)

\* imports.items(): a dict keeps the order of first insertion of its keys
\* and the value last assigned to each
ImportItems(t) ==
    LET as == ImportAssignments(t)
        firsts == SelectSeq(IndexSeq(as),
                            LAMBDA k : \A j \in 1..(k - 1) : as[j].name # as[k].name)
        LastOf(name) == CHOOSE k \in 1..Len(as) :
                            /\ as[k].name = name
                            /\ \A j \in (k + 1)..Len(as) : as[j].name # name
    IN  AsTuple([i \in 1..Len(firsts) |-> as[LastOf(as[firsts[i]].name)]])

\* used_names that also takes the attribute name of an attribute access
UsedNamesWithAttrs(t) ==
    {t[k].name : k \in {j \in 1..Len(t) : t[j].type \in {"Name", "Attribute"}}}
    \cup {t[k].value : k \in {j \in 1..Len(t) : t[j].type = "Attribute" /\ t[j].value # None}}

\* used_names had every piece of text inside a string constant counted too
UsedNamesWithStrings(t) ==
    {t[k].name : k \in {j \in 1..Len(t) : t[j].type = "Name"}}
    \cup {t[k].value : k \in {j \in 1..Len(t) : t[j].type = "Attribute" /\ t[j].value # None}}
    \cup UNION {{SubSeq(t[k].value, i, j) : i \in 1..Len(t[k].value), j \in 1..Len(t[k].value)} :
                 k \in {j \in 1..Len(t) : t[j].type = "Constant"}}

\* used_names
UsedNames(t) ==
    {t[k].name : k \in {j \in 1..Len(t) : t[j].type = "Name"}}
    \cup {t[k].value : k \in {j \in 1..Len(t) : t[j].type = "Attribute" /\ t[j].value # None}}

\* CodeAnalyzer._check_unused_imports
UnusedImportIssues(t) ==
    LET items == ImportItems(t)
        Emit(item) ==
          IF item.name = <<"*">> THEN <<>>
          ELSE IF item.name \notin UsedNames(t)
          THEN <<CodeIssue(t[item.node].lineno, t[item.node].col_offset, "unused_import",
                           Message("Unused import: '{}'", <<item.name>>), "info")>>
          ELSE <<>>
    IN  Collect(items, Emit)

\* _check_unreachable_code without the break after the first detection
UnreachableCodeNoBreak(t, body) ==
    LET Emit(i) ==
          IF i < Len(body) /\ t[body[i]].type \in {"Return", "Raise", "Break", "Continue"}
          THEN <<CodeIssue(t[body[i + 1]].lineno, t[body[i + 1]].col_offset, "dead_code",
                           Message("Unreachable code after return/raise statement", <<>>),
                           "warning")>>
          ELSE <<>>
    IN  Collect(IndexSeq(body), Emit)

\* CodeAnalyzer._check_unreachable_code: the scan of one statement list
UnreachableCodeIssues(t, body) ==
    LET Terminal(i) == t[body[i]].type \in {"Return", "Raise", "Break", "Continue"}
        \* the scan stops (break) at the first terminal statement that has a
        \* statement after it; a terminal statement that is last appends nothing
        hits == {i \in 1..(Len(body) - 1) : Terminal(i)}
    IN  IF hits = {} THEN <<>>
        ELSE LET i == CHOOSE i \in hits : \A j \in hits : i <= j
                 next_stmt == body[i + 1]
             IN  <<CodeIssue(t[next_stmt].lineno, t[next_stmt].col_offset, "dead_code",
                             Message(IF t[body[i]].type \in {"Return", "Raise"}
                                     THEN "Unreachable code after return/raise statement"
                                     ELSE "Unreachable code after break/continue statement",
                                     <<>>),
                             "warning")>>

\* CodeAnalyzer._check_dead_code
DeadCodeIssues(t) ==
    LET Scan(node, field) ==
          \* hasattr(node, field) and the list is not empty
          IF StmtList(t, node, field) # <<>>
          THEN UnreachableCodeIssues(t, StmtList(t, node, field)) ELSE <<>>
        Emit(node) ==
          IF t[node].type \in FunctionTypes THEN Scan(node, "body")
          ELSE IF t[node].type \in {"If", "For", "While", "With"}
          \* these node types have no finalbody: hasattr(node, 'finalbody') is false
          THEN Scan(node, "body") \o Scan(node, "orelse")
          ELSE <<>>
    IN  Collect(Walk(t), Emit)

\* the line counts as code: not blank, not a comment
IsCodeLine(line) == Strip(line) # <<>> /\ ~StartsWith(Strip(line), <<"#">>)

\* func_lines of _check_long_methods for one function node
FuncLines(t, source_lines, node) ==
    LET start_line == t[node].lineno
        end_line == EndLineno(t, node)
    IN  Cardinality({line_num \in (start_line - 1)..(end_line - 1) :
                        /\ line_num < Len(source_lines)
                        /\ IsCodeLine(source_lines[line_num + 1])})

\* CodeAnalyzer._check_long_methods
LongMethodIssues(t, source, max_lines) ==
    LET source_lines == SplitLines(source)
        Emit(node) ==
          IF t[node].type \in FunctionTypes /\ FuncLines(t, source_lines, node) > max_lines
          THEN <<CodeIssue(t[node].lineno, t[node].col_offset, "long_method",
                           Message("Function '{}' is too long ({} lines, max: {})",
                                   <<t[node].name, FuncLines(t, source_lines, node), max_lines>>),
                           "warning")>>
          ELSE <<>>
    IN  Collect(Walk(t), Emit)

NestingTypes == {"If", "For", "While", "With", "Try"}

\* calculate_depth that does not descend into an inner function or class
RECURSIVE CalculateDepthStopping(_, _, _)
CalculateDepthStopping(t, node, current_depth) ==
    LET children == {k \in 1..Len(t) : /\ t[k].parent = node
                                       /\ t[k].type \notin FunctionTypes \cup {"ClassDef"}}
        found == {current_depth} \cup
                 {CalculateDepthStopping(t, child,
                                         IF t[child].type \in NestingTypes
                                         THEN current_depth + 1 ELSE current_depth) :
                    child \in children}
    IN  CHOOSE d \in found : \A e \in found : e <= d

\* calculate_depth of _check_deep_nesting
RECURSIVE CalculateDepth(_, _, _)
CalculateDepth(t, node, current_depth) ==
    LET children == {k \in 1..Len(t) : t[k].parent = node}
        found == {current_depth} \cup
                 {CalculateDepth(t, child,
                                 IF t[child].type \in NestingTypes
                                 THEN current_depth + 1 ELSE current_depth) :
                    child \in children}
    IN  CHOOSE d \in found : \A e \in found : e <= d

\* CodeAnalyzer._check_deep_nesting
DeepNestingIssues(t, max_depth) ==
    LET Emit(node) ==
          IF t[node].type \in FunctionTypes /\ CalculateDepth(t, node, 0) > max_depth
          THEN <<CodeIssue(t[node].lineno, t[node].col_offset, "deep_nesting",
                           Message("Function '{}' has deep nesting (depth: {}, max: {})",
                                   <<t[node].name, CalculateDepth(t, node, 0), max_depth>>),
                           "warning")>>
          ELSE <<>>
    IN  Collect(Walk(t), Emit)

\* hashlib.md5(block_text.encode()).hexdigest(), taken to be free of
\* collisions: the digest stands for the text it was computed from
Md5(block_text) == [md5 |-> block_text]

\* the (start_line, end_line) pairs of the two nested range loops, in order
DuplicateWindows(n, min_lines) ==
    LET OfStart(start_line) ==
          LET stop == Min(start_line + min_lines + WindowSpread, n + 1)
              first == start_line + min_lines
          IN  AsTuple([k \in 1..Max(stop - first, 0) |->
                          [start_line |-> start_line, end_line |-> first + k - 1]])
    IN  Flatten(AsTuple([s \in 1..n |-> OfStart(s - 1)]))

\* line.strip() of every source line
StrippedLines(source_lines) ==
    AsTuple([k \in 1..Len(source_lines) |-> Strip(source_lines[k])])

\* block_lines of one window: the stripped lines of source_lines[start:end]
\* that are neither empty nor comments
BlockLines(stripped, w) ==
    SelectSeq(SubSeq(stripped, w.start_line + 1, w.end_line),
              LAMBDA line : line # <<>> /\ ~StartsWith(line, <<"#">>))

\* block_hashes as the sequence of its insertions: (hash, (start + 1, end))
BlockHashEntries(source_lines, min_lines) ==
    LET stripped == StrippedLines(source_lines)
        ws == DuplicateWindows(Len(source_lines), min_lines)
        blocks == AsTuple([k \in 1..Len(ws) |-> BlockLines(stripped, ws[k])])
        kept == SelectSeq(IndexSeq(ws), LAMBDA k : Len(blocks[k]) >= min_lines)
    IN  AsTuple([i \in 1..Len(kept) |->
                    [hash |-> Md5(JoinLines(blocks[kept[i]])),
                     location |-> <<ws[kept[i]].start_line + 1, ws[kept[i]].end_line>>]])

\* the last location recorded under a hash
LastLocation(locations) == locations[Len(locations)]

\* first_start, first_end = locations[0]
FirstLocation(locations) == locations[1]

\* CodeAnalyzer._check_duplicate_code
DuplicateCodeIssues(source, min_lines) ==
    LET entries == BlockHashEntries(SplitLines(source), min_lines)
        Locations(h) == SelectSeq(entries, LAMBDA e : e.hash = h)
        \* block_hashes.items(): one item per hash, in order of first insertion
        keys == SelectSeq(IndexSeq(entries),
                          LAMBDA k : \A j \in 1..(k - 1) : entries[j].hash # entries[k].hash)
        Emit(k) ==
          LET locations == Locations(entries[k].hash)
              first_start == FirstLocation(locations).location[1]
              first_end == FirstLocation(locations).location[2]
              num_lines == first_end - first_start
          IN  IF Len(locations) > 1
              THEN <<CodeIssue(first_start, 0, "duplicate_code",
                               Message("Duplicate code block found ({} lines, {} occurrences)",
                                       <<num_lines, Len(locations)>>),
                               "info")>>
              ELSE <<>>
    IN  Collect(keys, Emit)


(***************************************************************************)
(* The regular expressions of refactor.py.  A name handed to them is a     *)
(* non-empty string that begins with neither white space nor a comma, so   *)
(* the greedy match is the only one to try.                                *)
(***************************************************************************)
\* \b at 0-based position i of s
WordBoundary(s, i) ==
    LET before == i >= 1 /\ i <= Len(s) /\ IsWordChar(s[i])
        after  == i < Len(s) /\ IsWordChar(s[i + 1])
    IN  before # after

\* the length of the greedy \s* at 0-based position i
SpacesAt(s, i) == LeadingFrom(s, i + 1) - i

\* re.match(rf'^\s*import\s+{re.escape(unused)}\s*$', line)
MatchesPlainImport(line, unused) ==
    LET a == SpacesAt(line, 0)
        b == SpacesAt(line, a + Len(k_import))
        e == a + Len(k_import) + b + Len(unused)
    IN  /\ StartsWithAt(line, k_import, a)
        /\ b >= 1
        /\ StartsWithAt(line, unused, a + Len(k_import) + b)
        /\ e + SpacesAt(line, e) = Len(line)

\* re.search(rf'\bfrom\s+\S+\s+import\s+.*\b{re.escape(unused)}\b', line):
\* p is where from starts, m where \S+ starts, w where it ends, c where
\* import starts, q where the name starts
MatchesFromImport(line, unused) ==
    \E p \in 0..Len(line) :
        /\ WordBoundary(line, p)
        /\ StartsWithAt(line, k_from, p)
        /\ \E m \in (p + 5)..Len(line) :
              /\ \A j \in (p + 4)..(m - 1) : IsSpace(line[j + 1])
              /\ \E c \in (m + 2)..Len(line) :
                    /\ StartsWithAt(line, k_import, c)
                    /\ \E w \in (m + 1)..(c - 1) :
                          /\ \A j \in m..(w - 1) : ~IsSpace(line[j + 1])
                          /\ \A j \in w..(c - 1) : IsSpace(line[j + 1])
                    /\ c + 6 < Len(line)
                    /\ IsSpace(line[c + 7])
                    /\ \E q \in (c + 7)..(Len(line) - Len(unused)) :
                          /\ StartsWithAt(line, unused, q)
                          /\ WordBoundary(line, q)
                          /\ WordBoundary(line, q + Len(unused))

\* the length of the match of ,?\s*name\s*,? at 0-based position i, 0 for none
NameItemMatch(line, name, i) ==
    LET c1 == IF i < Len(line) /\ line[i + 1] = "," THEN 1 ELSE 0
        n0 == i + c1 + SpacesAt(line, i + c1)
        e  == n0 + Len(name) + SpacesAt(line, n0 + Len(name))
        c2 == IF e < Len(line) /\ line[e + 1] = "," THEN 1 ELSE 0
    IN  IF StartsWithAt(line, name, n0) THEN e + c2 - i ELSE 0

\* re.sub(rf',?\s*{re.escape(unused)}\s*,?', '', line), from position i on
RECURSIVE RemoveNameItems(_, _, _)
RemoveNameItems(line, name, i) ==
    IF i >= Len(line) THEN <<>>
    ELSE LET m == NameItemMatch(line, name, i)
         IN  IF m > 0 THEN RemoveNameItems(line, name, i + m)
             ELSE <<line[i + 1]>> \o RemoveNameItems(line, name, i + 1)

\* re.sub(r',\s*$', '', line)
DropTrailingComma(line) ==
    LET r == RStrip(line)
    IN  IF Len(r) > 0 /\ r[Len(r)] = "," THEN Slice(r, 0, Len(r) - 1) ELSE line

\* re.sub(r'import\s*,', 'import ', line), from position i on
RECURSIVE FixLeadingComma(_, _)
FixLeadingComma(line, i) ==
    IF i >= Len(line) THEN <<>>
    ELSE LET e == i + Len(k_import) + SpacesAt(line, i + Len(k_import))
         IN  IF StartsWithAt(line, k_import, i) /\ e < Len(line) /\ line[e + 1] = ","
             THEN k_import \o <<SP>> \o FixLeadingComma(line, e + 1)
             ELSE <<line[i + 1]>> \o FixLeadingComma(line, i + 1)

\* re.search(r'import\s+\w', line)
HasImportedName(line) ==
    \E i \in 0..(Len(line) - Len(k_import)) :
        /\ StartsWithAt(line, k_import, i)
        /\ LET w == SpacesAt(line, i + Len(k_import))
           IN  /\ w >= 1
               /\ i + Len(k_import) + w < Len(line)
               /\ IsWordChar(line[i + Len(k_import) + w + 1])

\* re.sub(r'\b' + re.escape(old_name) + r'\b', new_name, line, count=1), for
\* a new_name without backslashes
SubFirstWord(line, old_name, new_name) ==
    LET at == {i \in 0..(Len(line) - Len(old_name)) :
                  /\ StartsWithAt(line, old_name, i)
                  /\ WordBoundary(line, i)
                  /\ WordBoundary(line, i + Len(old_name))}
    IN  IF at = {} THEN line
        ELSE LET i == CHOOSE i \in at : \A j \in at : i <= j
             IN  Slice(line, 0, i) \o new_name \o From(line, i + Len(old_name))

(***************************************************************************)
(* CodeRefactor and apply_refactoring                                      *)
(***************************************************************************)
\* scope=None; no identifier equals it
NoScope == <<"None">>

\* CodeRefactor.__init__
CodeRefactor(text) == [source_code |-> text, lines |-> SplitLines(text)]

RefactoringResult(success, message, original_code, refactored_code, changes_made) ==
    [success |-> success, message |-> message, original_code |-> original_code,
     refactored_code |-> refactored_code, changes_made |-> changes_made]

\* a failure whose refactored text is the lines joined again
FailureJoined(text, message) ==
    RefactoringResult(FALSE, message, text, JoinLines(SplitLines(text)), <<>>)

\* the failure results: refactored_code is the source text, no change made
Failure(text, message) == RefactoringResult(FALSE, message, text, text, <<>>)

\* the loop over unused_imports for one line: whether the line is kept,
\* what it has become, and the names counted as removed
ImportLineOutcome(line, unused_imports) ==
    LET hits == SelectSeq(unused_imports,
                          LAMBDA u : MatchesPlainImport(line, u) \/ MatchesFromImport(line, u))
    IN  IF hits = <<>> THEN [keep |-> TRUE, line |-> line, removed |-> <<>>]
        ELSE LET unused == hits[1]
                 cut == FixLeadingComma(
                            DropTrailingComma(RemoveNameItems(line, unused, 0)), 0)
             IN  IF MatchesPlainImport(line, unused)
                 THEN [keep |-> FALSE, line |-> line, removed |-> <<unused>>]
                 ELSE IF Contains(line, <<",">>)
                 THEN [keep |-> ~(Contains(cut, k_import) /\ ~HasImportedName(cut)),
                       line |-> cut, removed |-> <<unused>>]
                 ELSE [keep |-> FALSE, line |-> line, removed |-> <<unused>>]

\* CodeRefactor.remove_unused_imports
RemoveUnusedImports(self, unused_imports) ==
    LET outcomes == AsTuple([k \in 1..Len(self.lines) |->
                                ImportLineOutcome(self.lines[k], unused_imports)])
        kept == SelectSeq(outcomes, LAMBDA o : o.keep)
        refactored_lines == AsTuple([k \in 1..Len(kept) |-> kept[k].line])
        imports_removed == Flatten(AsTuple([k \in 1..Len(outcomes) |-> outcomes[k].removed]))
    IN  RefactoringResult(TRUE,
            Message("Removed {} unused import(s): {}",
                    <<Len(imports_removed), imports_removed>>),
            self.source_code,
            JoinLines(refactored_lines),
            AsTuple([k \in 1..Len(imports_removed) |->
                        Message("Removed unused import: {}", <<imports_removed[k]>>)]))

\* VariableFinder.current_scope at a node: the name of the innermost
\* enclosing FunctionDef (visit_FunctionDef; there is no visit_AsyncFunctionDef)
RECURSIVE CurrentScope(_, _)
CurrentScope(t, n) ==
    LET parent == t[n].parent
    IN  IF parent = 0 THEN NoScope
        ELSE IF t[parent].type = "FunctionDef" THEN t[parent].name
        ELSE CurrentScope(t, parent)

\* finder.occurrences: the Name nodes that VariableFinder records
Occurrences(t, target_name, target_scope) ==
    SelectSeq(IndexSeq(t),
              LAMBDA n : /\ t[n].type = "Name"
                         /\ t[n].name = target_name
                         /\ (target_scope = NoScope \/ CurrentScope(t, n) = target_scope))

\* re.sub(..., count=1) applied to the line once per occurrence
RECURSIVE SubTimes(_, _, _, _)
SubTimes(line, old_name, new_name, times) ==
    IF times = 0 THEN line
    ELSE SubTimes(SubFirstWord(line, old_name, new_name), old_name, new_name, times - 1)

\* rename_variable once the finder has run: one re.sub(count=1) per
\* occurrence on the occurrence's line, then the join
RenameOccurrences(self, t, occurrences, old_name, new_name) ==
    IF occurrences = <<>>
    THEN Failure(self.source_code,
                 Message("Variable '{}' not found in the specified scope", <<old_name>>))
    ELSE RefactoringResult(TRUE,
             Message("Renamed '{}' to '{}' ({} occurrences)",
                     <<old_name, new_name, Len(occurrences)>>),
             self.source_code,
             JoinLines(AsTuple([k \in 1..Len(self.lines) |->
                 SubTimes(self.lines[k], old_name, new_name,
                          Cardinality({i \in 1..Len(occurrences) :
                                          t[occurrences[i]].lineno = k}))])),
             <<Message("Renamed variable: {} -> {}", <<old_name, new_name>>)>>)

\* rename_variable once ast.parse has returned or raised
RenameParsed(self, parsed, old_name, new_name, scope) ==
    IF ~parsed.ok
    THEN Failure(self.source_code, Message("Syntax error in source code: {}", <<>>))
    ELSE RenameOccurrences(self, parsed.nodes,
                           Occurrences(parsed.nodes, old_name, scope),
                           old_name, new_name)

\* CodeRefactor.rename_variable
RenameVariable(self, old_name, new_name, scope) ==
    RenameParsed(self, Parse(self.source_code), old_name, new_name, scope)

Spaces4 == <<SP, SP, SP, SP>>

s_def_sp   == k_def \o <<SP>>
s_class_sp == k_class \o <<SP>>
s_async_sp == k_async \o <<SP>> \o k_def \o <<SP>>

\* the range check that also refuses a range of one line
InvalidRangeStrict(self, start_line, end_line) ==
    start_line < 1 \/ end_line > Len(self.lines) \/ start_line >= end_line

\* extract_method: the range check
InvalidRange(self, start_line, end_line) ==
    start_line < 1 \/ end_line > Len(self.lines) \/ start_line > end_line

\* insert_pos always 0: the definition put at the top of the text
InsertPosTop(refactored_lines) == 0

\* extract_method: insert_pos, the 0-based index of the first line that is
\* not blank and whose trimmed text begins with neither import nor from,
\* 0 when there is none
InsertPos(refactored_lines) ==
    LET code == {i \in 1..Len(refactored_lines) :
                    /\ Strip(refactored_lines[i]) # <<>>
                    /\ ~StartsWith(Strip(refactored_lines[i]), k_import)
                    /\ ~StartsWith(Strip(refactored_lines[i]), k_from)}
    IN  IF code = {} THEN 0
        ELSE (CHOOSE i \in code : \A j \in code : i <= j) - 1

\* CodeRefactor.extract_method
ExtractMethod(self, start_line, end_line, method_name) ==
    IF InvalidRange(self, start_line, end_line)
    THEN Failure(self.source_code, Message("Invalid line range", <<>>))
    ELSE
    LET extracted_lines == SubSeq(self.lines, start_line, end_line)
        base_indent == Len(extracted_lines[1]) - Len(LStrip(extracted_lines[1]))
        method_lines ==
            <<k_def \o <<SP>> \o method_name \o <<"(", ")", ":">>>>
            \o AsTuple([k \in 1..Len(extracted_lines) |->
                           IF Strip(extracted_lines[k]) # <<>>
                           THEN Spaces4 \o From(extracted_lines[k], base_indent)
                           ELSE <<>>])
        call == AsTuple([k \in 1..base_indent |-> SP]) \o method_name \o <<"(", ")">>
        rebuilt == SubSeq(self.lines, 1, start_line - 1) \o <<call>>
                   \o SubSeq(self.lines, end_line + 1, Len(self.lines))
        insert_pos == InsertPos(rebuilt)
    IN  RefactoringResult(TRUE,
            Message("Extracted method '{}' from lines {}-{}",
                    <<method_name, start_line, end_line>>),
            self.source_code,
            JoinLines(SubSeq(rebuilt, 1, insert_pos) \o method_lines \o <<(<<>>), (<<>>)>>
                      \o SubSeq(rebuilt, insert_pos + 1, Len(rebuilt))),
            <<Message("Extracted method: {}", <<method_name>>)>>)

\* the first loop of format_code: formatted_lines after the lines from k on
RECURSIVE FormattedFrom(_, _, _)
FormattedFrom(lines, k, formatted_lines) ==
    IF k > Len(lines) THEN formatted_lines
    ELSE LET line == RStrip(lines[k])
             last == formatted_lines[Len(formatted_lines)]
             gap  == /\ k > 1
                     /\ (StartsWith(line, s_def_sp) \/ StartsWith(line, s_class_sp)
                         \/ StartsWith(line, s_async_sp))
                     /\ formatted_lines # <<>>
                     /\ Strip(last) # <<>>
                     /\ ~(Len(formatted_lines) > 1 /\ last = <<>>)
         IN  FormattedFrom(lines, k + 1,
                           (IF gap THEN Append(formatted_lines, <<>>) ELSE formatted_lines)
                           \o <<line>>)

\* the second loop of format_code: consecutive blank lines collapse to one
RECURSIVE FinalLines(_, _, _)
FinalLines(formatted_lines, k, prev_blank) ==
    IF k > Len(formatted_lines) THEN <<>>
    ELSE LET is_blank == Strip(formatted_lines[k]) = <<>>
         IN  IF is_blank /\ prev_blank THEN FinalLines(formatted_lines, k + 1, prev_blank)
             ELSE <<formatted_lines[k]>> \o FinalLines(formatted_lines, k + 1, is_blank)

\* CodeRefactor.format_code
FormatCode(self) ==
    LET changed == SelectSeq(IndexSeq(self.lines),
                             LAMBDA k : self.lines[k] # RStrip(self.lines[k]))
        changes == AsTuple([i \in 1..Len(changed) |->
                               Message("Formatted line {}", <<changed[i]>>)])
    IN  RefactoringResult(TRUE,
            Message("Code formatted ({} changes)", <<Len(changes)>>),
            self.source_code,
            JoinLines(FinalLines(FormattedFrom(self.lines, 1, <<>>), 1, FALSE)),
            IF changes # <<>> THEN changes
            ELSE <<Message("Code formatting applied", <<>>)>>)

\* kwargs.get(...) of every parameter: None is the empty string, 0, NoScope
NoKwargs == [unused_imports |-> <<>>, old_name |-> <<>>, new_name |-> <<>>,
             scope |-> NoScope, start_line |-> 0, end_line |-> 0, method_name |-> <<>>]

\* apply_refactoring(source_code, operation, **kwargs)
NoMethod == "none"

\* the dispatch without the parameter checks: every known operation reaches
\* its method
DispatchedUnchecked(operation, kwargs) ==
    IF operation \in {"remove_unused_imports", "rename_variable", "extract_method",
                      "format_code"}
    THEN operation
    ELSE NoMethod

\* the method of the CodeRefactor that apply_refactoring calls for the
\* request, NoMethod when it returns before calling any
Dispatched(operation, kwargs) ==
    IF operation = "remove_unused_imports"
    THEN operation
    ELSE IF operation = "rename_variable"
    THEN (IF kwargs.old_name = <<>> \/ kwargs.new_name = <<>> THEN NoMethod ELSE operation)
    ELSE IF operation = "extract_method"
    THEN (IF kwargs.start_line = 0 \/ kwargs.end_line = 0 \/ kwargs.method_name = <<>>
          THEN NoMethod ELSE operation)
    ELSE IF operation = "format_code"
    THEN operation
    ELSE NoMethod

\* the result of the method apply_refactoring has dispatched to, or of its
\* own early return
Dispatch(text, operation, kwargs, method) ==
    IF method = "remove_unused_imports"
    THEN RemoveUnusedImports(CodeRefactor(text), kwargs.unused_imports)
    ELSE IF method = "rename_variable"
    THEN RenameVariable(CodeRefactor(text), kwargs.old_name, kwargs.new_name, kwargs.scope)
    ELSE IF method = "extract_method"
    THEN ExtractMethod(CodeRefactor(text), kwargs.start_line, kwargs.end_line,
                       kwargs.method_name)
    ELSE IF method = "format_code"
    THEN FormatCode(CodeRefactor(text))
    ELSE IF operation = "rename_variable"
    THEN Failure(text, Message("Missing required parameters: old_name and new_name", <<>>))
    ELSE IF operation = "extract_method"
    THEN Failure(text, Message(
             "Missing required parameters: start_line, end_line, method_name", <<>>))
    ELSE Failure(text, Message("Unknown operation: {}", <<operation>>))

ApplyRefactoring(text, operation, kwargs) ==
    Dispatch(text, operation, kwargs, Dispatched(operation, kwargs))

(***************************************************************************)
(* The state machine of one CodeAnalyzer: the constructor parses, analyze  *)
(* clears the issue list, runs the six checks in order and returns it.     *)
(***************************************************************************)
NoRefactor == [source_code |-> <<>>, lines |-> <<>>]
NoRequest  == [source_code |-> <<>>, operation |-> "", kwargs |-> NoKwargs, method |-> ""]
NoResult   == [success |-> FALSE, message |-> Message("", <<>>), original_code |-> <<>>,
               refactored_code |-> <<>>, changes_made |-> <<>>]

RefactorIdle == refactor = NoRefactor /\ request = NoRequest /\ result = NoResult

\* the error CodeAnalyzer.__init__ raises: ValueError(f"Invalid Python syntax: {e}")
NoError == Message("", <<>>)
RaisedError(text) ==
    IF Parse(text).ok THEN NoError
    ELSE Message("Invalid Python syntax: {}", <<"SyntaxError">>)

\* a constructor that keeps the instance when the text does not parse
ConstructLenient(text) ==
    /\ source_code = text
    /\ tree = Parse(text)
    /\ issues = <<>>
    /\ pc = "ready"
    /\ returned = <<>>

\* CodeAnalyzer.__init__
Construct(text) ==
    /\ source_code = text
    /\ tree = Parse(text)
    /\ issues = <<>>
    /\ pc = IF Parse(text).ok THEN "ready" ELSE "raised"
    /\ returned = <<>>

\* a check that puts its issues in front of the earlier ones
StepPrepending(from, to, found) ==
    /\ pc = from
    /\ pc' = to
    /\ issues' = found \o issues
    /\ UNCHANGED <<source_code, tree, returned, refactor, request, result>>

\* one check of analyze: its issues are appended to self.issues
Step(from, to, found) ==
    /\ pc = from
    /\ pc' = to
    /\ issues' = issues \o found
    /\ UNCHANGED <<source_code, tree, returned, refactor, request, result>>

\* analyze without the reset: the list of the earlier run is kept
AnalyzeKeeping ==
    /\ pc = "ready"
    /\ pc' = "too_many_parameters"
    /\ UNCHANGED <<source_code, tree, issues, returned, refactor, request, result>>

\* analyze: self.issues = []
Analyze ==
    /\ pc = "ready"
    /\ pc' = "too_many_parameters"
    /\ issues' = <<>>
    /\ UNCHANGED <<source_code, tree, returned, refactor, request, result>>

CheckTooManyParameters ==
    Step("too_many_parameters", "unused_imports",
         TooManyParametersIssues(tree.nodes, DefaultMaxParams))

CheckUnusedImports ==
    Step("unused_imports", "dead_code", UnusedImportIssues(tree.nodes))

CheckDeadCode ==
    Step("dead_code", "long_methods", DeadCodeIssues(tree.nodes))

CheckLongMethods ==
    Step("long_methods", "deep_nesting",
         LongMethodIssues(tree.nodes, source_code, DefaultMaxLines))

CheckDeepNesting ==
    Step("deep_nesting", "duplicate_code", DeepNestingIssues(tree.nodes, DefaultMaxDepth))

CheckDuplicateCode ==
    Step("duplicate_code", "return", DuplicateCodeIssues(source_code, DefaultMinLines))

\* analyze: return self.issues
Return ==
    /\ pc = "return"
    /\ pc' = "done"
    /\ returned' = Append(returned, issues)
    /\ UNCHANGED <<source_code, tree, issues, refactor, request, result>>

AnalyzeNext ==
    \/ Analyze
    \/ CheckTooManyParameters
    \/ CheckUnusedImports
    \/ CheckDeadCode
    \/ CheckLongMethods
    \/ CheckDeepNesting
    \/ CheckDuplicateCode
    \/ Return

\* one apply_refactoring call on a text
Invoke(text, operation, kwargs) ==
    /\ request = NoRequest
    /\ request' = [source_code |-> text, operation |-> operation, kwargs |-> kwargs,
                   method |-> Dispatched(operation, kwargs)]
    /\ refactor' = CodeRefactor(text)
    /\ result' = ApplyRefactoring(text, operation, kwargs)

n_os    == <<"o","s">>
n_tmp   == <<"t","m","p">>
n_total == <<"t","o","t","a","l">>

MaxLine == 2

\* the arguments the calls are made with; an empty name and line 0 stand
\* for an argument that is not given
UnusedLists == {<<>>, <<n_os>>, <<n_tmp, n_os>>}
OldNames    == {n_tmp, <<>>}
NewNames    == {n_total, <<"t">>, <<>>}
Scopes      == {NoScope, <<"f">>}
MethodNames == {<<"m">>, <<>>}

ApplyRemoveUnusedImports ==
    /\ \E names \in UnusedLists :
          Invoke(source_code, "remove_unused_imports",
                 [NoKwargs EXCEPT !.unused_imports = names])
    /\ UNCHANGED <<source_code, tree, issues, pc, returned>>

ApplyRenameVariable ==
    /\ \E old_name \in OldNames, new_name \in NewNames, scope \in Scopes :
          Invoke(source_code, "rename_variable",
                 [NoKwargs EXCEPT !.old_name = old_name, !.new_name = new_name,
                                  !.scope = scope])
    /\ UNCHANGED <<source_code, tree, issues, pc, returned>>

ApplyExtractMethod ==
    /\ \E start_line \in 0..MaxLine, end_line \in 0..MaxLine, method_name \in MethodNames :
          Invoke(source_code, "extract_method",
                 [NoKwargs EXCEPT !.start_line = start_line, !.end_line = end_line,
                                  !.method_name = method_name])
    /\ UNCHANGED <<source_code, tree, issues, pc, returned>>

ApplyFormatCode ==
    /\ Invoke(source_code, "format_code", NoKwargs)
    /\ UNCHANGED <<source_code, tree, issues, pc, returned>>

ApplyUnknownOperation ==
    /\ Invoke(source_code, "inline_method", NoKwargs)
    /\ UNCHANGED <<source_code, tree, issues, pc, returned>>

RefactorNext ==
    \/ ApplyRemoveUnusedImports
    \/ ApplyRenameVariable
    \/ ApplyExtractMethod
    \/ ApplyFormatCode
    \/ ApplyUnknownOperation

\* apply_refactoring(text, 'remove_unused_imports', unused_imports=names) with
\* any list of up to MaxNames of the names a from-import line may list
MaxNames == 2

ListedNames == {<<"a">>, <<"b">>, <<"c">>}

ApplyRemoveListed ==
    /\ \E names \in UNION {[1..n -> ListedNames] : n \in 0..MaxNames} :
          Invoke(source_code, "remove_unused_imports",
                 [NoKwargs EXCEPT !.unused_imports = names])
    /\ UNCHANGED <<source_code, tree, issues, pc, returned>>

\* apply_refactoring(text, 'rename_variable', old_name='tmp',
\* new_name='total', scope=S) with S absent or the name of a definition
ScopeNames == {NoScope, <<"f">>, <<"g">>, <<"h">>}

ApplyRenameInScope ==
    /\ \E scope \in ScopeNames :
          Invoke(source_code, "rename_variable",
                 [NoKwargs EXCEPT !.old_name = n_tmp, !.new_name = n_total,
                                  !.scope = scope])
    /\ UNCHANGED <<source_code, tree, issues, pc, returned>>

\* apply_refactoring(text, 'extract_method', start_line=s, end_line=e,
\* method_name='m') with any two line numbers up to MaxExtractLine
MaxExtractLine == 5

ApplyExtractRange ==
    /\ \E start_line \in 1..MaxExtractLine, end_line \in 1..MaxExtractLine :
          Invoke(source_code, "extract_method",
                 [NoKwargs EXCEPT !.start_line = start_line, !.end_line = end_line,
                                  !.method_name = <<"m">>])
    /\ UNCHANGED <<source_code, tree, issues, pc, returned>>

\* apply_refactoring(text, 'format_code') on the text that the format_code
\* call before it returned
ApplyFormatAgain ==
    /\ request # NoRequest
    /\ request.operation = "format_code"
    /\ result.success
    /\ request' = [source_code |-> result.refactored_code, operation |-> "format_code",
                   kwargs |-> NoKwargs, method |-> Dispatched("format_code", NoKwargs)]
    /\ refactor' = CodeRefactor(result.refactored_code)
    /\ result' = ApplyRefactoring(result.refactored_code, "format_code", NoKwargs)
    /\ UNCHANGED <<source_code, tree, issues, pc, returned>>

FormatNext ==
    \/ ApplyFormatCode
    \/ ApplyFormatAgain

(***************************************************************************)
(* analyze called again, on the same instance and on a fresh one           *)
(***************************************************************************)
MaxRuns == 3

\* the next call of analyze on the instance: self.issues still names the list
\* the call before returned
AnalyzeAgain ==
    /\ pc = "done"
    /\ Len(returned) < MaxRuns
    /\ pc' = "ready"
    /\ UNCHANGED <<source_code, tree, issues, returned, refactor, request, result>>

\* CodeAnalyzer(source_code) once more: a new tree and a new, empty list
AnalyzeFresh ==
    /\ pc = "done"
    /\ Len(returned) < MaxRuns
    /\ pc' = "ready"
    /\ tree' = Parse(source_code)
    /\ issues' = <<>>
    /\ UNCHANGED <<source_code, returned, refactor, request, result>>

RepeatNext ==
    \/ AnalyzeNext
    \/ AnalyzeAgain
    \/ AnalyzeFresh

(***************************************************************************)
(* One CodeRefactor instance and the method calls made on it directly      *)
(***************************************************************************)
\* the lines of the instance after rename_variable, had the loop worked on
\* self.lines itself
LinesSharedByRename(self, outcome) ==
    IF outcome.success THEN PhysicalLines(outcome.refactored_code) ELSE self.lines

\* the lines of the instance after rename_variable: the loop works on
\* self.lines.copy()
LinesKeptByRename(self, outcome) == self.lines

\* one method call on the instance: the request names the method and its
\* arguments, the result is what the method returned
Call(method, kwargs, outcome) ==
    /\ refactor # NoRefactor
    /\ request' = [source_code |-> refactor.source_code, operation |-> method,
                   kwargs |-> kwargs, method |-> method]
    /\ result' = outcome
    /\ UNCHANGED <<source_code, tree, issues, pc, returned>>

\* the line arguments of the direct calls: below 1, within and beyond the text
LineArgs == (0 - 1)..(MaxLine + 1)

CallRemoveUnusedImports ==
    /\ \E names \in UnusedLists :
          Call("remove_unused_imports", [NoKwargs EXCEPT !.unused_imports = names],
               RemoveUnusedImports(refactor, names))
    /\ UNCHANGED refactor

CallRenameVariable ==
    /\ \E old_name \in OldNames, new_name \in NewNames, scope \in Scopes :
          Call("rename_variable",
               [NoKwargs EXCEPT !.old_name = old_name, !.new_name = new_name,
                                !.scope = scope],
               RenameVariable(refactor, old_name, new_name, scope))
    /\ refactor' = [refactor EXCEPT !.lines = LinesKeptByRename(refactor, result')]

CallExtractMethod ==
    /\ \E start_line \in LineArgs, end_line \in LineArgs, method_name \in MethodNames :
          Call("extract_method",
               [NoKwargs EXCEPT !.start_line = start_line, !.end_line = end_line,
                                !.method_name = method_name],
               ExtractMethod(refactor, start_line, end_line, method_name))
    /\ UNCHANGED refactor

CallFormatCode ==
    /\ Call("format_code", NoKwargs, FormatCode(refactor))
    /\ UNCHANGED refactor

InstanceNext ==
    \/ CallRemoveUnusedImports
    \/ CallRenameVariable
    \/ CallExtractMethod
    \/ CallFormatCode

\* the names the unused_import issues of an analysis report, in issue order
ReportedNames(found) ==
    LET hits == SelectSeq(found, LAMBDA i : i.issue_type = "unused_import")
    IN  AsTuple([k \in 1..Len(hits) |-> hits[k].message.args[1]])

Reverse(seq) == AsTuple([k \in 1..Len(seq) |-> seq[Len(seq) + 1 - k]])

\* the round trip, first half: remove_unused_imports on the analysed text,
\* with the reported names in either order
RemoveReported ==
    /\ pc = "done"
    /\ \E names \in {ReportedNames(returned[1]), Reverse(ReportedNames(returned[1]))} :
          Invoke(source_code, "remove_unused_imports",
                 [NoKwargs EXCEPT !.unused_imports = names])
    /\ pc' = "refactored"
    /\ UNCHANGED <<source_code, tree, issues, returned>>

\* the round trip, second half: a CodeAnalyzer on the refactored text
Reanalyze ==
    /\ pc = "refactored"
    /\ source_code' = result.refactored_code
    /\ tree' = Parse(result.refactored_code)
    /\ issues' = <<>>
    /\ pc' = IF Parse(result.refactored_code).ok THEN "ready" ELSE "raised"
    /\ UNCHANGED <<returned, refactor, request, result>>

RoundTripNext ==
    \/ AnalyzeNext
    \/ RemoveReported
    \/ Reanalyze

(***************************************************************************)
(* Source texts                                                            *)
(***************************************************************************)
Spaces(n) == AsTuple([k \in 1..n |-> SP])
Indent(level, content) == Spaces(4 * level) \o content
TextOf(lines) == JoinLines(lines) \o <<NL>>

\* the sequences over alphabet of a length in lo..hi
SeqsOf(alphabet, lo, hi) == UNION {[1..n -> alphabet] : n \in lo..hi}

\* items joined by ", "
RECURSIVE CommaJoin(_)
CommaJoin(items) ==
    IF Len(items) = 0 THEN <<>>
    ELSE IF Len(items) = 1 THEN items[1]
    ELSE items[1] \o <<",", SP>> \o CommaJoin(Tail(items))

Digit(n) == <<"0","1","2","3","4","5","6","7","8","9">>[n + 1]


\* ---- functions with parameter lists --------------------------------------
MaxArgs    == 6
MaxPosOnly == 1
MaxKwOnly  == 1

ParamConfigs ==
    {c \in [inclass : BOOLEAN, nested : BOOLEAN, async : BOOLEAN,
            first : {k_self, k_cls, <<"x">>},
            nargs : 0..MaxArgs, posonly : 0..MaxPosOnly, kwonly : 0..MaxKwOnly,
            star : {"none", "bare", "args"}, kwarg : BOOLEAN] :
        /\ c.star = "bare" => c.kwonly >= 1
        /\ c.kwonly >= 1 => c.star # "none"}

ParamList(c) ==
    LET pos == [k \in 1..c.posonly |->
                  IF k = 1 THEN (IF c.first = k_self THEN k_cls ELSE k_self)
                  ELSE <<"p", Digit(k)>>]
        reg == [k \in 1..c.nargs |-> IF k = 1 THEN c.first ELSE <<"x", Digit(k)>>]
        kw  == [k \in 1..c.kwonly |-> <<"k", Digit(k)>>]
    IN  CommaJoin(pos \o (IF c.posonly > 0 THEN <<(<<"/">>)>> ELSE <<>>)
                  \o reg
                  \o (IF c.star = "bare" THEN <<(<<"*">>)>>
                      ELSE IF c.star = "args" THEN <<(<<"*","v">>)>> ELSE <<>>)
                  \o kw
                  \o (IF c.kwarg THEN <<(<<"*","*","w">>)>> ELSE <<>>))

ParamSource(c) ==
    LET d0 == IF c.inclass THEN 1 ELSE 0
        d1 == IF c.nested THEN d0 + 1 ELSE d0
    IN  TextOf((IF c.inclass THEN <<k_class \o <<SP, "c", ":">>>> ELSE <<>>)
               \o (IF c.nested
                   THEN <<Indent(d0, k_def \o <<SP, "g", "(", ")", ":">>)>> ELSE <<>>)
               \o <<Indent(d1, (IF c.async THEN k_async \o <<SP>> ELSE <<>>)
                               \o k_def \o <<SP, "f", "(">> \o ParamList(c) \o <<")", ":">>),
                    Indent(d1 + 1, k_pass)>>)

ParamSources == {ParamSource(c) : c \in ParamConfigs}

InitParams == (\E text \in ParamSources : Construct(text)) /\ RefactorIdle

SpecParams == InitParams /\ [][AnalyzeNext]_vars


\* ---- imports and mentions -------------------------------------------------
MaxImports == 2

ImportPool ==
    {k_import \o <<SP>> \o n_os,
     k_import \o <<SP>> \o n_os \o <<SP>> \o k_as \o <<SP, "o">>,
     k_import \o <<SP>> \o n_os \o <<",", SP, "a">>,
     k_import \o <<SP, "a", ".", "b">>,
     k_from \o <<SP>> \o n_os \o <<SP>> \o k_import \o <<SP, "a">>,
     k_from \o <<SP>> \o n_os \o <<SP>> \o k_import \o <<SP, "a", ",", SP, "b">>,
     k_from \o <<SP>> \o n_os \o <<SP>> \o k_import \o <<SP, "a", SP>> \o k_as \o <<SP, "o">>,
     k_from \o <<SP>> \o n_os \o <<SP>> \o k_import \o <<SP, "*">>}

\* statements that mention names: bare, as the base of an attribute access,
\* as an attribute, inside a string
MentionPool ==
    <<n_os,
      <<"o", ".", "a">>,
      <<"a", ".">> \o n_os,
      <<"b">>,
      <<"\"">> \o n_os \o <<"\"">>>>

ImportSource(imports, mentions) ==
    TextOf(imports \o SelectSeq(MentionPool, LAMBDA m : m \in mentions))

ImportSources ==
    {ImportSource(i, m) : i \in SeqsOf(ImportPool, 1, MaxImports),
                          m \in SUBSET {MentionPool[k] : k \in 1..Len(MentionPool)}}

InitImports == (\E text \in ImportSources : Construct(text)) /\ RefactorIdle

SpecImports == InitImports /\ [][AnalyzeNext]_vars

\* ---- statement blocks -----------------------------------------------------
MaxBlock == 3

s_x        == <<"x">>
s_raise    == k_raise \o <<SP, "e">>

SimpleStmts == {s_x, k_return, s_raise, k_break}

BlockConfigs ==
    [hdr : {"def", "async", "if", "for", "while", "with"},
     body : SeqsOf(SimpleStmts, 1, MaxBlock),
     orelse : {<<>>, <<k_continue, s_x>>, <<s_x, k_return>>},
     tail : {<<>>, <<k_return, s_x, s_x>>}]

HeaderLine(hdr) ==
    CASE hdr = "def"   -> k_def \o <<SP, "f", "(", ")", ":">>
      [] hdr = "async" -> k_async \o <<SP>> \o k_def \o <<SP, "f", "(", ")", ":">>
      [] hdr = "if"    -> k_if \o <<SP, "a", ":">>
      [] hdr = "for"   -> k_for \o <<SP, "i", SP>> \o k_in \o <<SP, "a", ":">>
      [] hdr = "while" -> k_while \o <<SP, "a", ":">>
      [] hdr = "with"  -> k_with \o <<SP, "a", ":">>
      [] hdr = "try"   -> k_try \o <<":">>
      [] hdr = "class" -> k_class \o <<SP, "c", ":">>

IndentAll(level, stmts) == AsTuple([k \in 1..Len(stmts) |-> Indent(level, stmts[k])])

BlockSource(c) ==
    IF c.hdr \in {"def", "async"}
    THEN TextOf(<<HeaderLine(c.hdr)>> \o IndentAll(1, c.body))
    ELSE TextOf(<<HeaderLine("def"), Indent(1, HeaderLine(c.hdr))>>
                \o IndentAll(2, c.body)
                \o (IF c.hdr # "with" /\ c.orelse # <<>>
                    THEN <<Indent(1, k_else \o <<":">>)>> \o IndentAll(2, c.orelse)
                    ELSE <<>>)
                \o IndentAll(1, c.tail))

BlockSources == {BlockSource(c) : c \in BlockConfigs}

InitBlocks == (\E text \in BlockSources : Construct(text)) /\ RefactorIdle

SpecBlocks == InitBlocks /\ [][AnalyzeNext]_vars

\* ---- nested constructs ----------------------------------------------------
MaxNest == 5

CtrlKinds == <<"if", "for", "while", "with", "try">>

NestConfigs ==
    [shape : SeqsOf({"ctrl", "def", "class"}, 0, MaxNest),
     start : {0, 2},
     sibling : BOOLEAN]

\* the construct at position k of the chain
NestKind(c, k) ==
    IF c.shape[k] = "ctrl" THEN CtrlKinds[((c.start + k) % Len(CtrlKinds)) + 1]
    ELSE c.shape[k]

NestHeader(kind) == IF kind = "def" THEN k_def \o <<SP, "g", "(", ")", ":">>
                    ELSE HeaderLine(kind)

\* the chain from position k on, one construct inside the other
RECURSIVE NestLines(_, _, _)
NestLines(c, k, level) ==
    IF k > Len(c.shape) THEN <<Indent(level, k_pass)>>
    ELSE <<Indent(level, NestHeader(NestKind(c, k)))>>
         \o NestLines(c, k + 1, level + 1)
         \o (IF NestKind(c, k) = "try"
             THEN <<Indent(level, k_except \o <<":">>), Indent(level + 1, k_pass)>>
             ELSE <<>>)

NestSource(c) ==
    TextOf(<<HeaderLine("def")>>
           \o (IF c.sibling THEN <<Indent(1, HeaderLine("if")), Indent(2, k_pass)>> ELSE <<>>)
           \o NestLines(c, 1, 1))

NestSources == {NestSource(c) : c \in NestConfigs}

InitNesting == (\E text \in NestSources : Construct(text)) /\ RefactorIdle

SpecNesting == InitNesting /\ [][AnalyzeNext]_vars

\* ---- long functions --------------------------------------------------------
MaxExtra   == 3
MaxSkipped == 1

\* a function of about DefaultMaxLines statements, with blank lines and
\* comment lines after its first statement, possibly wrapped whole in an
\* outer function and followed by a statement at module level; a form feed
\* on a line of its own (a page break) before the function or inside it
LongConfigs ==
    [nstmts : (DefaultMaxLines - 2)..(DefaultMaxLines - 2 + MaxExtra),
     blank : 0..MaxSkipped, comment : 0..MaxSkipped,
     feed : {"none", "before", "inside"},
     async : BOOLEAN, nested : BOOLEAN, tail : BOOLEAN]

Repeat(n, line) == AsTuple([k \in 1..n |-> line])

LongSource(c) ==
    LET d == IF c.nested THEN 1 ELSE 0
    IN  JoinLines((IF c.feed = "before" THEN <<(<<FF>>)>> ELSE <<>>)
                  \o (IF c.nested THEN <<HeaderLine("def")>> ELSE <<>>)
                  \o <<Indent(d, IF c.async THEN k_async \o <<SP>> \o NestHeader("def")
                                 ELSE NestHeader("def")),
                       Indent(d + 1, s_x)>>
                  \o (IF c.feed = "inside" THEN <<(<<FF>>)>> ELSE <<>>)
                  \o Repeat(c.blank, <<>>)
                  \o Repeat(c.comment, Indent(d + 1, <<"#", SP, "x">>))
                  \o Repeat(c.nstmts - 1, Indent(d + 1, s_x))
                  \o (IF c.tail THEN <<s_x>> ELSE <<>>)) \o <<NL>>

LongSources == {LongSource(c) : c \in LongConfigs}

InitLong == (\E text \in LongSources : Construct(text)) /\ RefactorIdle

SpecLong == InitLong /\ [][AnalyzeNext]_vars

\* ---- repeated lines -------------------------------------------------------
MaxDupLines == 8

\* a line of code, another that strip() changes, a blank line
DupLinePool == {<<"a">>, <<"b", SP>>, <<>>}

DupSources == {TextOf(ls) : ls \in SeqsOf(DupLinePool, DefaultMinLines, MaxDupLines)}

InitDup == (\E text \in DupSources : Construct(text)) /\ RefactorIdle

SpecDup == InitDup /\ [][AnalyzeNext]_vars

\* ---- the round trip over the import texts ------------------------------------
SpecRoundTrip == InitImports /\ [][RoundTripNext]_vars

\* ---- texts to refactor ------------------------------------------------------
MaxParts == 2

\* tmp as a variable, next to an identifier that contains it, after an
\* attribute of the same name, as a parameter, after an identifier with a
\* combining mark; a page break; an import; a line that does not parse and
\* ends in white space
RefactorParts ==
    {<<n_tmp \o <<SP, "=", SP, "0">>>>,
     <<n_tmp \o <<"2", SP, "=", SP>> \o n_tmp>>,
     <<(<<"x", SP, "=", SP, "o", ".">> \o n_tmp \o <<SP, "+", SP>> \o n_tmp)>>,
     <<k_def \o <<SP, "f", "(">> \o n_tmp \o <<")", ":">>,
       Indent(1, k_return \o <<SP>> \o n_tmp)>>,
     <<(<<"y", SP, "=", SP>> \o n_tmp \o <<Mark, SP, "+", SP>> \o n_tmp)>>,
     <<(<<FF>>)>>,
     <<k_import \o <<SP>> \o n_os>>,
     <<(<<"x", SP, "y", SP, SP>>)>>}

RefactorSources ==
    {JoinLines(Flatten(parts)) \o end :
        parts \in SeqsOf(RefactorParts, 1, MaxParts), end \in {<<>>, <<NL>>}}

InitRefactor == (\E text \in RefactorSources : Construct(text)) /\ RefactorIdle

SpecRefactor == InitRefactor /\ [][RefactorNext]_vars

\* ---- one instance, called directly ----------------------------------------
InstanceSources ==
    {JoinLines(Flatten(parts)) \o end :
        parts \in SeqsOf(RefactorParts, 1, 1), end \in {<<>>, <<NL>>}}

InitInstance ==
    /\ \E text \in InstanceSources : Construct(text)
    /\ refactor = CodeRefactor(source_code)
    /\ request = NoRequest
    /\ result = NoResult

SpecInstance == InitInstance /\ [][InstanceNext]_vars

\* ---- texts to format --------------------------------------------------------
MaxFormatParts == 3

l_pass == <<SP,SP,SP,SP,"p","a","s","s">>

\* statements and blank lines, with and without trailing whitespace, and
\* definitions whose keyword is followed by a space or by a tab
FormatParts ==
    {<<<<"x",SP,"=",SP,"1">>>>,
     <<<<"x",SP,"=",SP,"1",SP,SP>>>>,
     <<<<>>>>,
     <<<<SP>>>>,
     <<<<"d","e","f",SP,"f","(",")",":">>, l_pass>>,
     <<<<"d","e","f","\t","f","(",")",":">>, l_pass>>,
     <<<<"c","l","a","s","s",SP,"c",":",SP>>, l_pass>>,
     <<<<"a","s","y","n","c",SP,"d","e","f",SP,"g","(",")",":">>, l_pass>>}

FormatSources ==
    {JoinLines(Flatten(parts)) : parts \in SeqsOf(FormatParts, 1, MaxFormatParts)}

InitFormat == (\E text \in FormatSources : Construct(text)) /\ RefactorIdle

SpecFormat == InitFormat /\ [][ApplyFormatCode]_vars

\* ---- texts that do not parse, and the empty text ------------------------------
MaxSyntaxLines == 6

\* an assignment, a line that is no statement, a blank line
SyntaxLinePool == {<<"x",SP,"=",SP,"1">>, <<"x",SP,"1">>, <<>>}

SyntaxSources ==
    {<<>>} \cup {TextOf(ls) : ls \in SeqsOf(SyntaxLinePool, DefaultMinLines, MaxSyntaxLines)}

InitSyntax == (\E text \in SyntaxSources : Construct(text)) /\ RefactorIdle

SpecSyntax == InitSyntax /\ [][AnalyzeNext]_vars

\* ---- texts with issues of several kinds ---------------------------------------
l_import_os == <<"i","m","p","o","r","t",SP,"o","s">>
l_if_a      == k_if \o <<SP,"a",":">>

\* one part for each check but the long functions, each a sequence of lines
MixedParts ==
    <<<<<<"d","e","f",SP,"p","(","a",",",SP,"b",",",SP,"c",",",SP,"d",",",SP,"e",",",SP,"g",")",":">>, Indent(1, k_pass)>>,
      <<l_import_os>>,
      <<<<"d","e","f",SP,"h","(",")",":">>, Indent(1, k_return), Indent(1, s_x)>>,
      <<<<"d","e","f",SP,"n","(",")",":">>, Indent(1, l_if_a), Indent(2, l_if_a), Indent(3, l_if_a),
        Indent(4, l_if_a), Indent(5, l_if_a), Indent(6, k_pass)>>,
      Repeat(DefaultMinLines + 1, <<"y",SP,"=",SP,"1">>)>>

\* a function that every check but the import check reports: six parameters,
\* more than DefaultMaxLines lines, five nested ifs, a statement after return
LongPart ==
    <<<<"d","e","f",SP,"l","(","a",",",SP,"b",",",SP,"c",",",SP,"d",",",SP,"e",",",SP,"g",")",":">>>>
    \o Repeat(DefaultMaxLines - 8, Indent(1, s_x))
    \o <<Indent(1, l_if_a), Indent(2, l_if_a), Indent(3, l_if_a), Indent(4, l_if_a),
         Indent(5, l_if_a), Indent(6, k_pass), Indent(1, k_return), Indent(1, s_x)>>

\* the chosen parts, in the order of the checks or against it
MixedSource(chosen, reversed) ==
    LET n == Len(MixedParts)
        order == SelectSeq(AsTuple([k \in 1..n |-> IF reversed THEN n + 1 - k ELSE k]),
                           LAMBDA k : k \in chosen)
    IN  TextOf(Flatten(AsTuple([k \in 1..Len(order) |-> MixedParts[order[k]]])))

MixedSources ==
    {MixedSource(chosen, reversed) :
        chosen \in SUBSET (1..Len(MixedParts)), reversed \in BOOLEAN}
    \cup {TextOf(<<l_import_os>> \o LongPart), TextOf(LongPart \o <<l_import_os>>)}

InitMixed == (\E text \in MixedSources : Construct(text)) /\ RefactorIdle

SpecRepeat == InitMixed /\ [][RepeatNext]_vars

\* ---- an import and the places that mention its name ---------------------------
LexicalImports == {l_import_os, <<"f","r","o","m",SP,"a",SP,"i","m","p","o","r","t",SP,"o","s">>}

\* a bare reference, a reference in a branch never taken, an attribute access
\* after a return, a string that reads like code, a comment
LexicalParts ==
    <<<<n_os>>,
      <<<<"i","f",SP,"0",":">>, Indent(1, n_os)>>,
      <<<<"d","e","f",SP,"f","(",")",":">>, Indent(1, k_return), Indent(1, n_os \o <<".", "a">>)>>,
      <<<<"x",SP,"=",SP,"\"","o","s",".","a","\"">>>>,
      <<<<"#",SP,"o","s">>>>>>

LexicalSource(import, chosen) ==
    LET order == SelectSeq(IndexSeq(LexicalParts), LAMBDA k : k \in chosen)
    IN  TextOf(<<import>>
               \o Flatten(AsTuple([k \in 1..Len(order) |-> LexicalParts[order[k]]])))

LexicalSources ==
    {LexicalSource(import, chosen) :
        import \in LexicalImports, chosen \in SUBSET (1..Len(LexicalParts))}

InitLexical == (\E text \in LexicalSources : Construct(text)) /\ RefactorIdle

SpecLexical == InitLexical /\ [][AnalyzeNext]_vars

\* ---- one name imported more than once ------------------------------------------
MaxRebinds == 3

\* an import of os at module level, in two forms, in a function and in a
\* function of a function
RebindParts ==
    {<<l_import_os>>,
     <<<<"f","r","o","m",SP,"a",SP,"i","m","p","o","r","t",SP,"o","s">>>>,
     <<<<"d","e","f",SP,"f","(",")",":">>, Indent(1, l_import_os)>>,
     <<<<"d","e","f",SP,"g","(",")",":">>, Indent(1, <<"d","e","f",SP,"h","(",")",":">>), Indent(2, l_import_os)>>}

RebindSources ==
    {TextOf(Flatten(parts)) : parts \in SeqsOf(RebindParts, 1, MaxRebinds)}

InitRebind == (\E text \in RebindSources : Construct(text)) /\ RefactorIdle

SpecRebind == InitRebind /\ [][AnalyzeNext]_vars

\* ---- try statements with a finally clause ------------------------------------
MaxFinally == 3

TryConfigs ==
    [body : {<<s_x>>, <<k_return, s_x>>},
     handler : BOOLEAN,
     finalbody : SeqsOf(SimpleStmts, 1, MaxFinally),
     indef : BOOLEAN]

TrySource(c) ==
    LET d == IF c.indef THEN 1 ELSE 0
    IN  TextOf((IF c.indef THEN <<HeaderLine("def")>> ELSE <<>>)
               \o <<Indent(d, HeaderLine("try"))>>
               \o IndentAll(d + 1, c.body)
               \o (IF c.handler
                   THEN <<Indent(d, k_except \o <<":">>), Indent(d + 1, k_pass)>>
                   ELSE <<>>)
               \o <<Indent(d, k_finally \o <<":">>)>>
               \o IndentAll(d + 1, c.finalbody))

TrySources == {TrySource(c) : c \in TryConfigs}

InitTry == (\E text \in TrySources : Construct(text)) /\ RefactorIdle

SpecTry == InitTry /\ [][AnalyzeNext]_vars

\* ---- from-import lines that list several names --------------------------------
MaxFromLines == 2

FromLinePool ==
    {<<"f","r","o","m",SP,"m",SP,"i","m","p","o","r","t",SP,"a",",",SP,"b",",",SP,"c">>, <<"f","r","o","m",SP,"m",SP,"i","m","p","o","r","t",SP,"a",",",SP,"b">>, <<"f","r","o","m",SP,"m",SP,"i","m","p","o","r","t",SP,"c">>, <<"i","m","p","o","r","t",SP,"a">>, <<"x",SP,"=",SP,"a">>}

FromSources == {JoinLines(ls) : ls \in SeqsOf(FromLinePool, 1, MaxFromLines)}

InitFrom == (\E text \in FromSources : Construct(text)) /\ RefactorIdle

SpecFrom == InitFrom /\ [][ApplyRemoveListed]_vars

\* ---- one variable at module level and in definitions ----------------------------
MaxScopeParts == 2

l_tmp == n_tmp \o <<SP, "=", SP, "0">>
l_def_f == k_def \o <<SP, "f", "(", ")", ":">>
l_def_g == k_def \o <<SP, "g", "(", ")", ":">>
l_async_h == k_async \o <<SP>> \o k_def \o <<SP, "h", "(", ")", ":">>

\* the variable at module level, in f, in g nested in f (before and after
\* it f's own), in an async h, in an async h nested in f, in a class named
\* f, and a g without it
ScopeParts ==
    {<<l_tmp>>,
     <<l_def_f, Indent(1, l_tmp)>>,
     <<l_def_f, Indent(1, l_def_g), Indent(2, l_tmp), Indent(1, l_tmp)>>,
     <<l_async_h, Indent(1, l_tmp)>>,
     <<l_def_f, Indent(1, l_async_h), Indent(2, l_tmp)>>,
     <<k_class \o <<SP, "f", ":">>, Indent(1, l_tmp)>>,
     <<l_def_g, Indent(1, s_x)>>}

ScopeSources ==
    {TextOf(Flatten(parts)) : parts \in SeqsOf(ScopeParts, 1, MaxScopeParts)}

InitScope == (\E text \in ScopeSources : Construct(text)) /\ RefactorIdle

SpecScope == InitScope /\ [][ApplyRenameInScope]_vars

\* ---- the variable beside other text that spells its name -----------------------
MaxFrameParts == 2

q_tmp == <<"\"">> \o n_tmp \o <<"\"">>
o_tmp == <<"o", ".">> \o n_tmp

\* the variable alone; after and before an attribute, a string and a
\* comment of its name; as a parameter and in the body; the attribute, the
\* string and the comment alone
FrameParts ==
    {<<l_tmp>>,
     <<(<<"x", SP, "=", SP>> \o o_tmp \o <<SP, "+", SP>> \o n_tmp)>>,
     <<(<<"x", SP, "=", SP>> \o n_tmp \o <<SP, "+", SP>> \o o_tmp)>>,
     <<(<<"x", SP, "=", SP>> \o q_tmp \o <<SP, "+", SP>> \o n_tmp)>>,
     <<(<<"x", SP, "=", SP>> \o n_tmp \o <<SP, "+", SP>> \o q_tmp)>>,
     <<(<<"x", SP, "=", SP>> \o n_tmp \o <<SP, SP, "#", SP>> \o n_tmp)>>,
     <<k_def \o <<SP, "f", "(">> \o n_tmp \o <<")", ":">>,
       Indent(1, k_return \o <<SP>> \o n_tmp)>>,
     <<(<<"y", SP, "=", SP>> \o o_tmp)>>,
     <<(<<"y", SP, "=", SP>> \o q_tmp)>>,
     <<(<<"#", SP>> \o n_tmp)>>}

FrameSources ==
    {TextOf(Flatten(parts)) : parts \in SeqsOf(FrameParts, 1, MaxFrameParts)}

InitFrame == (\E text \in FrameSources : Construct(text)) /\ RefactorIdle

SpecFrame == InitFrame /\ [][ApplyRenameInScope]_vars

\* ---- texts to extract a range of lines from -------------------------------------
MaxExtractParts == 2

\* an import, a statement, a blank line, a comment, and a function whose
\* body goes two levels deep and comes back to one
ExtractParts ==
    {<<l_import_os>>,
     <<(<<"x", SP, "=", SP, "1">>)>>,
     <<(<<>>)>>,
     <<(<<"#", SP, "c">>)>>,
     <<l_def_f, Indent(1, l_if_a), Indent(2, <<"x", SP, "=", SP, "1">>),
       Indent(1, <<"y", SP, "=", SP, "2">>)>>}

ExtractSources ==
    {JoinLines(Flatten(parts)) : parts \in SeqsOf(ExtractParts, 1, MaxExtractParts)}

InitExtract == (\E text \in ExtractSources : Construct(text)) /\ RefactorIdle

SpecExtract == InitExtract /\ [][ApplyExtractRange]_vars

\* ---- content lines that all differ, with blank and comment lines between -------
MaxDistinctLines == 6

LineLetters == <<"a", "b", "c", "d", "e", "f", "g", "h">>

\* what may stand before a content line and after the last one: nothing,
\* a blank line, a comment line
GapLines == {<<>>, <<(<<>>)>>, <<(<<"#", SP, "z">>)>>}

\* n content lines, the k-th the k-th letter, with the gaps filled by gaps
DistinctLines(n, gaps) ==
    Flatten(AsTuple([k \in 1..n |-> gaps[k] \o <<(<<LineLetters[k]>>)>>])) \o gaps[n + 1]

DistinctSources ==
    {TextOf(DistinctLines(n, gaps)) :
        n \in {m \in DefaultMinLines..MaxDistinctLines : m <= Len(LineLetters)},
        gaps \in [1..MaxDistinctLines + 1 -> GapLines]}

InitDistinct == (\E text \in DistinctSources : Construct(text)) /\ RefactorIdle

SpecDistinct == InitDistinct /\ [][AnalyzeNext]_vars

\* ---- format_code applied to what it returned -------------------------------------
SpecReformat == InitFormat /\ [][FormatNext]_vars

(***************************************************************************)
(* Properties                                                              *)
(***************************************************************************)
\* the positions in the issue list of the issues of a type at a position
IssuesAt(type, line, column) ==
    {i \in 1..Len(issues) : /\ issues[i].issue_type = type
                            /\ issues[i].line = line
                            /\ issues[i].column = column}

IssuesOfType(type) == {i \in 1..Len(issues) : issues[i].issue_type = type}

Callables == {n \in 1..Len(tree.nodes) : tree.nodes[n].type \in FunctionTypes}

\* n is nested beneath a class definition, at any depth
BeneathClass(n) ==
    \E c \in 1..Len(tree.nodes) :
        c # n /\ tree.nodes[c].type = "ClassDef" /\ InWalkOf(tree.nodes, n, c)

\* positional + positional-only + keyword-only parameters, one less for a
\* callable beneath a class whose first positional parameter is self or cls
CountableParams(n) ==
    LET a == tree.nodes[n].args
        selfish == /\ BeneathClass(n)
                   /\ Len(a.args) > 0
                   /\ a.args[1] \in {k_self, k_cls}
    IN  Len(a.args) + Len(a.posonlyargs) + Len(a.kwonlyargs) - (IF selfish THEN 1 ELSE 0)

Ran(steps) == pc \in steps

AfterParams == Ran({"unused_imports", "dead_code", "long_methods", "deep_nesting",
                    "duplicate_code", "return", "done"})

\* C1: every callable with more than 5 countable parameters has exactly one
\* too_many_parameters issue, whose message states that count and the
\* threshold 5; a callable with 5 or fewer has none.
C1_TooManyParameters ==
    AfterParams =>
        \A n \in Callables :
            LET hits == IssuesAt("too_many_parameters", tree.nodes[n].lineno,
                                 tree.nodes[n].col_offset)
            IN  IF CountableParams(n) > 5
                THEN /\ Cardinality(hits) = 1
                     /\ \A i \in hits :
                           issues[i].message.args =
                               <<tree.nodes[n].name, CountableParams(n), 5>>
                ELSE hits = {}

\* C1 witness: a method whose first parameter is self is reported with the
\* count that leaves self out, next to variadic parameters that are not counted
C1_Witness ==
    /\ pc = "done"
    /\ \E n \in Callables :
          /\ BeneathClass(n)
          /\ tree.nodes[n].args.args # <<>>
          /\ tree.nodes[n].args.args[1] = k_self
          /\ tree.nodes[n].args.vararg # None
          /\ CountableParams(n) = 6
          /\ IssuesAt("too_many_parameters", tree.nodes[n].lineno,
                      tree.nodes[n].col_offset) # {}


AfterImports == Ran({"dead_code", "long_methods", "deep_nesting", "duplicate_code",
                     "return", "done"})

ImportNodes == {n \in 1..Len(tree.nodes) : tree.nodes[n].type \in {"Import", "ImportFrom"}}

\* the names the import statements bind: the alias if given, else the
\* imported name
BoundNames ==
    UNION {{IF tree.nodes[n].names[k].asname # None
            THEN tree.nodes[n].names[k].asname ELSE tree.nodes[n].names[k].name :
              k \in 1..Len(tree.nodes[n].names)} : n \in ImportNodes}

\* the identifiers that occur bare or as the base of an attribute access
MentionedNames ==
    {tree.nodes[n].name : n \in {k \in 1..Len(tree.nodes) : tree.nodes[k].type = "Name"}}

UnusedImportIssuesNaming(name) ==
    {i \in IssuesOfType("unused_import") : issues[i].message.args = <<name>>}

\* C2: every bound name other than '*' that is mentioned nowhere has exactly
\* one unused_import issue naming it, and a mentioned one has none; the
\* attribute name of obj.attr is no mention.
C2_UnusedImports ==
    AfterImports =>
        \A name \in BoundNames \ {<<"*">>} :
            Cardinality(UnusedImportIssuesNaming(name)) =
                IF name \in MentionedNames THEN 0 ELSE 1

\* C2 witness: os is imported and occurs only as an attribute name (a.os),
\* and is reported
C2_Witness ==
    /\ pc = "done"
    /\ n_os \in BoundNames
    /\ \E n \in 1..Len(tree.nodes) :
          tree.nodes[n].type = "Attribute" /\ tree.nodes[n].name = n_os
    /\ UnusedImportIssuesNaming(n_os) # {}


AfterDeadCode == Ran({"long_methods", "deep_nesting", "duplicate_code", "return", "done"})

TerminalTypes == {"Return", "Raise", "Break", "Continue"}

\* the statement blocks the claim is about: a callable body, the body or the
\* else clause of an if, for, while or with statement
ClaimedBlocks ==
    {b \in (1..Len(tree.nodes)) \X {"body", "orelse"} :
        /\ \/ tree.nodes[b[1]].type \in FunctionTypes /\ b[2] = "body"
           \/ tree.nodes[b[1]].type \in {"If", "For", "While", "With"}
        /\ StmtList(tree.nodes, b[1], b[2]) # <<>>}

\* the dead_code issues positioned at a statement of the block
DeadCodeIssuesIn(stmts) ==
    {i \in IssuesOfType("dead_code") :
        \E k \in 1..Len(stmts) : /\ issues[i].line = tree.nodes[stmts[k]].lineno
                                 /\ issues[i].column = tree.nodes[stmts[k]].col_offset}

FirstTerminal(stmts) ==
    LET ts == {k \in 1..Len(stmts) : tree.nodes[stmts[k]].type \in TerminalTypes}
    IN  IF ts = {} THEN 0 ELSE CHOOSE k \in ts : \A j \in ts : k <= j

\* C3: a claimed block whose first terminal statement is followed by a
\* statement has exactly one dead_code issue, at the statement right after
\* that terminal; a block without a terminal statement, or whose terminal is
\* last, has none.
C3_DeadCode ==
    AfterDeadCode =>
        \A b \in ClaimedBlocks :
            LET stmts == StmtList(tree.nodes, b[1], b[2])
                ft == FirstTerminal(stmts)
                hits == DeadCodeIssuesIn(stmts)
            IN  IF ft # 0 /\ ft < Len(stmts)
                THEN /\ Cardinality(hits) = 1
                     /\ \A i \in hits :
                           /\ issues[i].line = tree.nodes[stmts[ft + 1]].lineno
                           /\ issues[i].column = tree.nodes[stmts[ft + 1]].col_offset
                ELSE hits = {}

\* C3 witness: an else clause with a terminal statement, a second terminal
\* and a trailing statement after it, reported once
C3_Witness ==
    /\ pc = "done"
    /\ \E b \in ClaimedBlocks :
          LET stmts == StmtList(tree.nodes, b[1], b[2]) IN
          /\ Len(stmts) = 3
          /\ FirstTerminal(stmts) = 1
          /\ tree.nodes[stmts[2]].type \in TerminalTypes
          /\ Cardinality(DeadCodeIssuesIn(stmts)) = 1
    /\ \E b \in ClaimedBlocks :
          /\ b[2] = "orelse"
          /\ DeadCodeIssuesIn(StmtList(tree.nodes, b[1], b[2])) # {}


AfterNesting == Ran({"duplicate_code", "return", "done"})

\* the conditional, loop, with and exception-handling constructs that
\* enclose node n (n itself included) inside callable f
EnclosingConstructs(f, n) ==
    {a \in 1..Len(tree.nodes) :
        /\ a # f
        /\ tree.nodes[a].type \in {"If", "For", "While", "With", "Try"}
        /\ InWalkOf(tree.nodes, a, f)
        /\ InWalkOf(tree.nodes, n, a)}

\* the nesting depth of callable f: the maximum over its descendants
NestingDepth(f) ==
    LET ds == {Cardinality(EnclosingConstructs(f, n)) :
                 n \in {k \in 1..Len(tree.nodes) : InWalkOf(tree.nodes, k, f)}}
    IN  CHOOSE d \in ds : \A e \in ds : e <= d

\* C4: a callable whose nesting depth exceeds 3 has exactly one deep_nesting
\* issue, stating that depth; another callable has none.  The depth counts
\* constructs inside inner callables and classes too.
C4_DeepNesting ==
    AfterNesting =>
        \A f \in Callables :
            LET hits == IssuesAt("deep_nesting", tree.nodes[f].lineno,
                                 tree.nodes[f].col_offset)
            IN  IF NestingDepth(f) > 3
                THEN /\ Cardinality(hits) = 1
                     /\ \A i \in hits :
                           issues[i].message.args = <<tree.nodes[f].name, NestingDepth(f), 3>>
                ELSE hits = {}

\* C4 witness: a callable of depth 4 is reported, and part of the four
\* constructs lies inside an inner callable, which alone has depth 2 and is
\* not reported
C4_Witness ==
    /\ pc = "done"
    /\ \E f, g \in Callables :
          /\ f # g
          /\ InWalkOf(tree.nodes, g, f)
          /\ NestingDepth(f) = 4
          /\ NestingDepth(g) = 2
          /\ IssuesAt("deep_nesting", tree.nodes[f].lineno, tree.nodes[f].col_offset) # {}
          /\ IssuesAt("deep_nesting", tree.nodes[g].lineno, tree.nodes[g].col_offset) = {}


AfterLong == Ran({"deep_nesting", "duplicate_code", "return", "done"})

\* source_code.splitlines(), the lines the line-based checks read
SourceLines == SplitLines(source_code)

\* the lines of the text as the tree numbers them
TreeLines == PhysicalLines(source_code)

IsBlank(line) == \A k \in 1..Len(line) : IsSpace(line[k])

\* the first character of the line that is not white space is the comment marker
IsComment(line) ==
    \E k \in 1..Len(line) : line[k] = "#" /\ \A j \in 1..(k - 1) : IsSpace(line[j])

\* the lines from the definition line of f through its end line that are
\* neither blank nor comments
CountedLines(lines, f) ==
    {l \in tree.nodes[f].lineno..EndLineno(tree.nodes, f) :
        ~IsBlank(lines[l]) /\ ~IsComment(lines[l])}

\* C5: every callable whose lines from the definition line through the end
\* line, blank lines and comment lines left out, number more than 50 has
\* exactly one long_method issue stating that number; a callable with 50 or
\* fewer such lines has none.
C5_LongMethods ==
    AfterLong =>
        LET lines == TreeLines IN
        \A f \in Callables :
            LET hits == IssuesAt("long_method", tree.nodes[f].lineno,
                                 tree.nodes[f].col_offset)
                count == Cardinality(CountedLines(lines, f))
            IN  IF count > 50
                THEN /\ Cardinality(hits) = 1
                     /\ \A i \in hits :
                           issues[i].message.args = <<tree.nodes[f].name, count, 50>>
                ELSE hits = {}

\* a function of 51 counted lines that follows a page break is not reported
C5_PageBreakHidesLongMethod ==
    /\ pc = "done"
    /\ \E f \in Callables :
          /\ Cardinality(CountedLines(TreeLines, f)) = 51
          /\ IssuesOfType("long_method") = {}

AfterDuplicates == Ran({"return", "done"})

\* what the scan recorded: the insertions into block_hashes, in order
Recorded == BlockHashEntries(SourceLines, DefaultMinLines)

RecordedHashes(rec) == {rec[k].hash : k \in 1..Len(rec)}

WindowsOf(rec, h) == {k \in 1..Len(rec) : rec[k].hash = h}

RepeatedHashes(rec) == {h \in RecordedHashes(rec) : Cardinality(WindowsOf(rec, h)) > 1}

\* the start line of the lowest-start window recorded under h
LowestStart(rec, h) ==
    LET starts == {rec[k].location[1] : k \in WindowsOf(rec, h)}
    IN  CHOOSE l \in starts : \A m \in starts : l <= m

\* C6: after the duplicate scan there are as many duplicate_code issues as
\* hashes recorded for more than one window, every one of severity info at
\* column 0, and on every line as many as there are such hashes whose
\* lowest-start window starts on that line; so a hash recorded once has none.
C6_DuplicateCode ==
    AfterDuplicates =>
        LET rec == Recorded
            repeated == RepeatedHashes(rec)
            first == [h \in repeated |-> LowestStart(rec, h)]
        IN  /\ Cardinality(IssuesOfType("duplicate_code")) = Cardinality(repeated)
            /\ \A i \in IssuesOfType("duplicate_code") :
                  issues[i].severity = "info" /\ issues[i].column = 0
            /\ \A l \in 1..(Len(SourceLines) + 1) :
                  Cardinality(IssuesAt("duplicate_code", l, 0)) =
                      Cardinality({h \in repeated : first[h] = l})

\* C6 witness: two hashes recorded for several windows with different
\* lowest starts, next to a hash recorded once
C6_Witness ==
    /\ pc = "done"
    /\ LET rec == Recorded
           repeated == RepeatedHashes(rec)
       IN  /\ \E h1, h2 \in repeated : LowestStart(rec, h1) < LowestStart(rec, h2)
           /\ RecordedHashes(rec) # repeated
    /\ Cardinality(IssuesOfType("duplicate_code")) >= 2

\* the unused_import issues of one analysis that name the import
NamedUnused(found, name) ==
    {k \in 1..Len(found) : /\ found[k].issue_type = "unused_import"
                           /\ found[k].message.args[1] = name}

\* C7: round trip: once the names reported by the unused_import issues of
\* the first analysis have been handed to remove_unused_imports and the
\* refactored text has been analysed, the second analysis has no
\* unused_import issue for any of those names.
C7_RoundTrip ==
    (Len(returned) = 2 /\ request.operation = "remove_unused_imports") =>
        \A k \in 1..Len(returned[1]) :
            returned[1][k].issue_type = "unused_import" =>
                NamedUnused(returned[2], returned[1][k].message.args[1]) = {}

\* the round trip ran to its end on a text with one aliased import that
\* was reported and is reported again
C7_AliasReportedAgain ==
    /\ Len(returned) = 2
    /\ request.source_code = TextOf(<<k_import \o <<SP>> \o n_os \o <<SP>> \o k_as \o <<SP, "o">>>>)
    /\ request.kwargs.unused_imports = <<(<<"o">>)>>
    /\ result.success
    /\ NamedUnused(returned[1], <<"o">>) # {}
    /\ NamedUnused(returned[2], <<"o">>) # {}

\* w stands in the line at 0-based position i as a whole word
WholeWordAt(line, w, i) ==
    /\ StartsWithAt(line, w, i)
    /\ ~(i >= 1 /\ IsWordChar(line[i]))
    /\ ~(i + Len(w) < Len(line) /\ IsWordChar(line[i + Len(w) + 1]))

\* a rename without a scope that succeeded
RenamedEverywhere ==
    /\ request.operation = "rename_variable"
    /\ request.kwargs.scope = NoScope
    /\ request.kwargs.new_name # request.kwargs.old_name
    /\ result.success

\* the positions where old occurs as a variable: the Name nodes of the tree
VariablePositions(t, old_name) ==
    {n \in 1..Len(t) : t[n].type = "Name" /\ t[n].name = old_name}

\* the column of position n once the earlier positions of its line have
\* been renamed
ColumnAfter(t, positions, n, old_name, new_name) ==
    t[n].col_offset
    + (Len(new_name) - Len(old_name))
      * Cardinality({m \in positions : /\ t[m].lineno = t[n].lineno
                                       /\ t[m].col_offset < t[n].col_offset})

\* the line numbers and columns of the tree are those of the characters of
\* the text: no page break and no character of more than one byte
PlainText(text) == \A k \in 1..Len(text) : text[k] \notin {FF, Mark}

NewAtEveryPosition(t, after, old_name, new_name) ==
    LET positions == VariablePositions(t, old_name)
    IN  \A n \in positions :
            /\ t[n].lineno <= Len(after)
            /\ WholeWordAt(after[t[n].lineno], new_name,
                           ColumnAfter(t, positions, n, old_name, new_name))

NoWholeWord(after, old_name) ==
    \A l \in 1..Len(after) : \A i \in 0..Len(after[l]) : ~WholeWordAt(after[l], old_name, i)

\* C8: after a successful rename_variable(old, new) without a scope and
\* with new different from old, the refactored text has new at every
\* position where old occurred as a variable (read on texts whose tree
\* positions are character positions) and has no whole-word occurrence of
\* old left.
C8_RenameEverywhere ==
    RenamedEverywhere =>
        /\ PlainText(request.source_code) =>
              NewAtEveryPosition(tree.nodes, PhysicalLines(result.refactored_code),
                                 request.kwargs.old_name, request.kwargs.new_name)
        /\ NoWholeWord(PhysicalLines(result.refactored_code), request.kwargs.old_name)

\* the rename of tmp in  x = o.tmp + tmp  succeeded, renamed the attribute
\* and left the variable
C8_AttributeRenamedInstead ==
    /\ RenamedEverywhere
    /\ request.source_code = <<"x", SP, "=", SP, "o", ".">> \o n_tmp \o <<SP, "+", SP>> \o n_tmp
    /\ request.kwargs.new_name = n_total
    /\ result.refactored_code =
           <<"x", SP, "=", SP, "o", ".">> \o n_total \o <<SP, "+", SP>> \o n_tmp

\* the identifiers of a line in order from 0-based position i on: the
\* maximal runs of identifier characters
RECURSIVE IdentRuns(_, _)
IdentRuns(line, i) ==
    IF i >= Len(line) THEN <<>>
    ELSE IF ~IsIdentChar(line[i + 1]) THEN IdentRuns(line, i + 1)
    ELSE <<Slice(line, i, WordEnd(line, i))>> \o IdentRuns(line, WordEnd(line, i))

\* the identifier merely contains old: old is a proper substring of it
MerelyContains(ident, old_name) ==
    Len(ident) > Len(old_name) /\ Contains(ident, old_name)

\* every identifier of the line before that merely contains old is, at its
\* place among the identifiers of the line, the identifier of the line after
KeptOnLine(before, after, old_name) ==
    \A k \in 1..Len(before) :
        MerelyContains(before[k], old_name) =>
            k <= Len(after) /\ after[k] = before[k]

\* C9: a successful rename_variable(old, new) leaves every identifier that
\* merely contains old as a proper substring unchanged at the same place:
\* line for line, such an identifier is the identifier at the same place
\* among the identifiers of the refactored line.
C9_SubstringIdentifiersKept ==
    (request.operation = "rename_variable" /\ result.success) =>
        \A l \in 1..Len(refactor.lines) :
            KeptOnLine(IdentRuns(refactor.lines[l], 0),
                       IF l <= Len(SplitLines(result.refactored_code))
                       THEN IdentRuns(SplitLines(result.refactored_code)[l], 0)
                       ELSE <<>>,
                       request.kwargs.old_name)

\* the rename of tmp in a line that holds tmp with a combining mark
\* succeeded and the marked identifier is gone from the line
C9_MarkedIdentifierAltered ==
    /\ request.operation = "rename_variable"
    /\ result.success
    /\ request.kwargs.new_name = n_total
    /\ request.source_code = <<"y", SP, "=", SP>> \o n_tmp \o <<Mark, SP, "+", SP>> \o n_tmp
    /\ result.refactored_code =
           <<"y", SP, "=", SP>> \o n_total \o <<Mark, SP, "+", SP>> \o n_tmp

\* C10: whenever a refactoring invocation has returned success = false, its
\* refactored text is the input text character for character and its change
\* list is empty; and every result, successful or not, carries the input
\* text as its original text.
C10_FailureKeepsText ==
    request # NoRequest =>
        /\ ~result.success =>
              /\ result.refactored_code = request.source_code
              /\ result.changes_made = <<>>
        /\ result.original_code = request.source_code

\* C10 witness: a rename failed on a text that splitting and joining would
\* not give back, and the refactored text is that text
C10_Witness ==
    /\ request.operation = "rename_variable"
    /\ ~result.success
    /\ JoinLines(refactor.lines) # request.source_code
    /\ result.refactored_code = request.source_code
    /\ result.original_code = request.source_code

KnownOperations == {"remove_unused_imports", "rename_variable", "extract_method", "format_code"}

\* the result says failure with this message and hands the text back
FailedWith(fmt, args) ==
    /\ ~result.success
    /\ result.message = Message(fmt, args)
    /\ result.refactored_code = request.source_code
    /\ result.changes_made = <<>>

\* C11: a request for an unknown operation returns success = false with a
\* message naming the operation; rename_variable without old_name or
\* new_name, and extract_method without start_line, end_line or
\* method_name, return success = false with the missing-parameters message;
\* in each of these cases no method of the CodeRefactor has been called.
C11_BadRequests ==
    request # NoRequest =>
        /\ request.operation \notin KnownOperations =>
              /\ FailedWith("Unknown operation: {}", <<request.operation>>)
              /\ request.method = NoMethod
        /\ (/\ request.operation = "rename_variable"
            /\ (request.kwargs.old_name = <<>> \/ request.kwargs.new_name = <<>>)) =>
              /\ FailedWith("Missing required parameters: old_name and new_name", <<>>)
              /\ request.method = NoMethod
        /\ (/\ request.operation = "extract_method"
            /\ (\/ request.kwargs.start_line = 0
                \/ request.kwargs.end_line = 0
                \/ request.kwargs.method_name = <<>>)) =>
              /\ FailedWith("Missing required parameters: start_line, end_line, method_name",
                            <<>>)
              /\ request.method = NoMethod

\* C11 witness: a rename of tmp without new_name on a text where tmp is a
\* variable, so that the rename would have found it, came back as a failure
\* with no method called
C11_Witness ==
    /\ request.operation = "rename_variable"
    /\ request.kwargs.old_name = n_tmp
    /\ request.kwargs.new_name = <<>>
    /\ request.source_code = n_tmp \o <<SP, "=", SP, "0">>
    /\ request.method = NoMethod
    /\ ~result.success

\* the range is one the claim calls invalid for a text of that many lines
ClaimedInvalid(text, start_line, end_line) ==
    start_line < 1 \/ end_line > Len(SplitLines(text)) \/ start_line > end_line

\* C12: extract_method returns success = false with the invalid-range
\* message exactly when start_line < 1, or end_line is greater than the
\* number of lines of the text, or start_line > end_line; for every other
\* range it returns success = true.
C12_ExtractRange ==
    request.method = "extract_method" =>
        LET invalid == ClaimedInvalid(request.source_code, request.kwargs.start_line,
                                      request.kwargs.end_line)
        IN  /\ invalid <=> (/\ ~result.success
                            /\ result.message = Message("Invalid line range", <<>>))
            /\ ~invalid => result.success

\* C12 witness: extract_method called directly with a range of one line,
\* the last line of a text of two lines, succeeded
C12_Witness ==
    /\ request.method = "extract_method"
    /\ request.kwargs.start_line = 2
    /\ request.kwargs.end_line = 2
    /\ Len(SplitLines(request.source_code)) = 2
    /\ result.success
    /\ result.changes_made # <<>>

\* the result the call of the request gives on CodeRefactor(text), a fresh
\* instance
OnFreshInstance(text, req) == Dispatch(text, req.operation, req.kwargs, req.method)

\* C16: after any sequence of direct calls of the four methods on one
\* CodeRefactor instance, the instance still holds the text it was built
\* from and the lines of that text, and the result of the last call is the
\* result the same call gives on a fresh instance built from that text.
C16_Stateless ==
    /\ refactor.source_code = source_code
    /\ refactor.lines = SplitLines(source_code)
    /\ request # NoRequest => result = OnFreshInstance(source_code, request)

\* C16 witness: a rename succeeded and returned lines other than the
\* instance's, and the instance still holds its own
C16_Witness ==
    /\ request.method = "rename_variable"
    /\ result.success
    /\ SplitLines(result.refactored_code) # SplitLines(source_code)
    /\ refactor.lines = SplitLines(source_code)

\* a line that begins at column 0 with a definition keyword
BeginsDefinition(line) ==
    LET toks == Tokenize(line)
    IN  /\ toks # <<>>
        /\ toks[1].col = 0
        /\ line[1] \notin {SP, FF, "\t"}
        /\ \/ IsKw(toks[1], k_def)
           \/ IsKw(toks[1], k_class)
           \/ IsKw(toks[1], k_async) /\ Len(toks) >= 2 /\ IsKw(toks[2], k_def)

NoTrailingWhitespace(ls) ==
    \A l \in 1..Len(ls) : ls[l] = <<>> \/ ~IsSpace(ls[l][Len(ls[l])])

NoBlankRun(ls) ==
    \A l \in 2..Len(ls) : ~(IsBlank(ls[l - 1]) /\ IsBlank(ls[l]))

DefinitionsSeparated(ls) ==
    \A l \in 2..Len(ls) : BeginsDefinition(ls[l]) => IsBlank(ls[l - 1])

Formatted == request.method = "format_code" /\ result.success

\* C13: in the text format_code returns no line ends in whitespace, no two
\* consecutive lines are blank, and every line but the first that begins at
\* column 0 with def, class or async def directly follows a blank line.
C13_Formatted ==
    Formatted =>
        LET out == PhysicalLines(result.refactored_code)
        IN  /\ NoTrailingWhitespace(out)
            /\ NoBlankRun(out)
            /\ DefinitionsSeparated(out)

\* a definition whose keyword is followed by a tab comes out directly below
\* a statement
C13_TabDefinitionNotSeparated ==
    /\ Formatted
    /\ tree.ok
    /\ LET out == PhysicalLines(result.refactored_code)
       IN  \E l \in 2..Len(out) :
              /\ StartsWith(out[l], <<"d","e","f","\t">>)
              /\ ~IsBlank(out[l - 1])

\* the first two properties hold of every formatted text
C13_StrippedAndCollapsed ==
    Formatted =>
        LET out == PhysicalLines(result.refactored_code)
        IN  NoTrailingWhitespace(out) /\ NoBlankRun(out)

\* a definition whose keyword is followed by one space is separated
C13_SpacedDefinitionsSeparated ==
    Formatted =>
        LET out == PhysicalLines(result.refactored_code)
        IN  \A l \in 2..Len(out) :
               (\E p \in {<<"d","e","f",SP>>, <<"c","l","a","s","s",SP>>,
                           <<"a","s","y","n","c",SP,"d","e","f",SP>>} :
                    StartsWith(out[l], p))
               => IsBlank(out[l - 1])

\* C14: a text that does not parse raises the error that says the syntax is
\* invalid and no issue is ever collected or returned for it, although the
\* line-based duplicate check would have found some; the empty text raises
\* nothing and its analysis returns the empty sequence.
C14_InvalidSyntax ==
    /\ ~Parse(source_code).ok =>
          /\ pc = "raised"
          /\ RaisedError(source_code).fmt = "Invalid Python syntax: {}"
          /\ issues = <<>>
          /\ returned = <<>>
    /\ Parse(source_code).ok => pc # "raised" /\ RaisedError(source_code) = NoError
    /\ source_code = <<>> =>
          /\ issues = <<>>
          /\ pc = "done" => returned = << <<>> >>

\* a text that does not parse and repeats a block of lines
C14_Witness ==
    /\ pc = "raised"
    /\ DuplicateCodeIssues(source_code, DefaultMinLines) # <<>>

\* the analysis of the empty text has returned
C14_EmptyAnalyzed == source_code = <<>> /\ pc = "done" /\ returned = << <<>> >>

CheckOrder == <<"too_many_parameters", "unused_import", "dead_code", "long_method",
                "deep_nesting", "duplicate_code">>

CheckRank(type) == CHOOSE r \in 1..Len(CheckOrder) : CheckOrder[r] = type

GroupedInCheckOrder(found) ==
    \A i \in 1..Len(found), j \in 1..Len(found) :
        i < j => CheckRank(found[i].issue_type) <= CheckRank(found[j].issue_type)

\* C17: in the list analyze builds and in every sequence it returns, every
\* issue is of one of the six kinds and no issue of a later check precedes an
\* issue of an earlier check (too_many_parameters, unused_import, dead_code,
\* long_method, deep_nesting, duplicate_code).
C17_CheckOrder ==
    /\ \A i \in 1..Len(issues) :
           \E r \in 1..Len(CheckOrder) : CheckOrder[r] = issues[i].issue_type
    /\ GroupedInCheckOrder(issues)
    /\ \A k \in 1..Len(returned) : GroupedInCheckOrder(returned[k])

\* a returned sequence with issues of all six kinds, from a text in which a
\* later check's issue lies on an earlier line
C17_Witness ==
    /\ pc = "done"
    /\ {returned[1][i].issue_type : i \in 1..Len(returned[1])}
         = {CheckOrder[r] : r \in 1..Len(CheckOrder)}
    /\ \E i \in 1..Len(returned[1]), j \in 1..Len(returned[1]) :
          i < j /\ returned[1][i].line > returned[1][j].line

\* the d-th node above n in the tree, 0 above the module's statements
RECURSIVE NodeAbove(_, _)
NodeAbove(n, d) ==
    IF n = 0 \/ d = 0 THEN n ELSE NodeAbove(tree.nodes[n].parent, d - 1)

\* some node d >= 1 levels above n is a class definition
ClassLevelsAbove(n) ==
    {d \in 1..Len(tree.nodes) :
        NodeAbove(n, d) # 0 /\ tree.nodes[NodeAbove(n, d)].type = "ClassDef"}

FirstIsSelfOrCls(n) ==
    /\ tree.nodes[n].args.args # <<>>
    /\ tree.nodes[n].args.args[1] \in {k_self, k_cls}

AllParams(n) ==
    Len(tree.nodes[n].args.args) + Len(tree.nodes[n].args.posonlyargs)
        + Len(tree.nodes[n].args.kwonlyargs)

\* the callable n is reported exactly when count exceeds 5, and then with count
ReportedByCount(n, count) ==
    LET hits == IssuesAt("too_many_parameters", tree.nodes[n].lineno,
                         tree.nodes[n].col_offset)
    IN  /\ hits # {} <=> count > 5
        /\ \A i \in hits : issues[i].message.args[2] = count

\* C18: a function whose first positional parameter is self or cls is counted
\* with one parameter less when a class definition lies any number of levels
\* above it, directly or with functions in between, and with all its
\* parameters when no class definition lies above it.
C18_TreeMembership ==
    AfterParams =>
        \A n \in Callables :
            FirstIsSelfOrCls(n) =>
                IF ClassLevelsAbove(n) # {}
                THEN ReportedByCount(n, AllParams(n) - 1)
                ELSE ReportedByCount(n, AllParams(n))

\* a function with six parameters, the first self, defined in a method body:
\* the class lies two levels above it and the function is not reported
C18_Witness ==
    /\ pc = "done"
    /\ \E n \in Callables :
          /\ FirstIsSelfOrCls(n)
          /\ ClassLevelsAbove(n) = {2}
          /\ AllParams(n) = 6
          /\ IssuesAt("too_many_parameters", tree.nodes[n].lineno,
                      tree.nodes[n].col_offset) = {}

\* a function with six parameters, the first self, with no class above it is
\* reported with six
C18_FreeFunctionReported ==
    /\ pc = "done"
    /\ \E n \in Callables :
          /\ FirstIsSelfOrCls(n)
          /\ ClassLevelsAbove(n) = {}
          /\ tree.nodes[n].parent # 0
          /\ AllParams(n) = 6
          /\ \E i \in 1..Len(issues) :
                /\ issues[i].line = tree.nodes[n].lineno
                /\ issues[i].message.args[2] = 6

\* the line is an import statement
IsImportLine(line) ==
    LET toks == Tokenize(line)
    IN  toks # <<>> /\ (IsKw(toks[1], k_import) \/ IsKw(toks[1], k_from))

\* the line mentions the name as an identifier of the code: a name token that
\* is not the attribute of an attribute access
NamedInCode(line, name) ==
    LET toks == Tokenize(line)
    IN  \E k \in 1..Len(toks) :
           /\ toks[k].kind = "name"
           /\ toks[k].text = name
           /\ ~(k > 1 /\ IsOp(toks[k - 1], "."))

\* the line mentions the name inside a string
NamedInString(line, name) ==
    LET toks == Tokenize(line)
    IN  \E k \in 1..Len(toks) : toks[k].kind = "str" /\ Contains(toks[k].text, name)

OtherLines == SelectSeq(PhysicalLines(source_code), LAMBDA line : ~IsImportLine(line))

MentionedInCode(name) ==
    \E l \in 1..Len(OtherLines) : NamedInCode(OtherLines[l], name)

MentionedInString(name) ==
    \E l \in 1..Len(OtherLines) : NamedInString(OtherLines[l], name)

\* C19 as stated: a mention of the imported name outside its import statement,
\* in reachable or unreachable code, as a no-op reference or inside a string,
\* leaves the name without an unused_import issue.
C19_AnyMentionCounts ==
    (AfterImports /\ (MentionedInCode(n_os) \/ MentionedInString(n_os)))
        => UnusedImportIssuesNaming(n_os) = {}

\* C19 as the code has it: the imported name has no unused_import issue
\* exactly when some line of code outside the import statement mentions it as
\* an identifier, reachable or not, with or without effect; text inside a
\* string or a comment is no mention, and the name is then reported once.
C19_MentionsInCode ==
    AfterImports =>
        Cardinality(UnusedImportIssuesNaming(n_os)) =
            IF MentionedInCode(n_os) THEN 0 ELSE 1

\* the only mention of the name in code is on a line reported as unreachable,
\* and the name is not reported
C19_Witness ==
    /\ pc = "done"
    /\ UnusedImportIssuesNaming(n_os) = {}
    /\ \E i \in IssuesOfType("dead_code") :
          \A l \in 1..Len(PhysicalLines(source_code)) :
              (~IsImportLine(PhysicalLines(source_code)[l])
                 /\ NamedInCode(PhysicalLines(source_code)[l], n_os))
              <=> l = issues[i].line

\* the name is mentioned in a string only, and is reported
C19_StringOnlyReported ==
    /\ pc = "done"
    /\ MentionedInString(n_os)
    /\ ~MentionedInCode(n_os)
    /\ UnusedImportIssuesNaming(n_os) # {}

\* the name is mentioned only in a branch that is never taken, and is not
\* reported
C19_BranchOnly ==
    /\ pc = "done"
    /\ source_code = LexicalSource(l_import_os, {2})
    /\ UnusedImportIssuesNaming(n_os) = {}

\* the import statements that bind the name
ImportsBinding(name) ==
    {n \in 1..Len(tree.nodes) :
        \E k \in 1..Len(ImportAssignments(tree.nodes)) :
            /\ ImportAssignments(tree.nodes)[k].node = n
            /\ ImportAssignments(tree.nodes)[k].name = name}

\* the one of them that comes last in the source
LaterImport(name) ==
    CHOOSE n \in ImportsBinding(name) :
        \A m \in ImportsBinding(name) : tree.nodes[m].lineno <= tree.nodes[n].lineno

\* C20: a name that is bound by several import statements and mentioned
\* nowhere has exactly one unused_import issue, at the line and column of the
\* import statement of that name that comes last in the source.
C20_LastWriterWins ==
    (AfterImports /\ ImportsBinding(n_os) # {}) =>
        /\ Cardinality(UnusedImportIssuesNaming(n_os)) = 1
        /\ \A i \in UnusedImportIssuesNaming(n_os) :
              /\ issues[i].line = tree.nodes[LaterImport(n_os)].lineno
              /\ issues[i].column = tree.nodes[LaterImport(n_os)].col_offset

\* the name is imported in a function and, further down, at module level: the
\* issue is on the import in the function, the earlier line
C20_NestedImportReported ==
    /\ pc = "done"
    /\ tree.nodes[LaterImport(n_os)].col_offset = 0
    /\ \E i \in UnusedImportIssuesNaming(n_os) :
          /\ issues[i].line < tree.nodes[LaterImport(n_os)].lineno
          /\ issues[i].column > 0

\* the name has one issue however often it is bound
C20_OneIssue ==
    (AfterImports /\ ImportsBinding(n_os) # {}) =>
        Cardinality(UnusedImportIssuesNaming(n_os)) = 1

\* among imports at one depth of nesting the last in the source is reported
C20_LastAtOneDepth ==
    (AfterImports /\ ImportsBinding(n_os) # {}
       /\ \A n \in ImportsBinding(n_os), m \in ImportsBinding(n_os) :
              tree.nodes[n].col_offset = tree.nodes[m].col_offset) =>
        \A i \in UnusedImportIssuesNaming(n_os) :
            issues[i].line = tree.nodes[LaterImport(n_os)].lineno

\* the finally clauses of the tree
FinallyClauses ==
    {n \in 1..Len(tree.nodes) :
        tree.nodes[n].type = "Try" /\ StmtList(tree.nodes, n, "finalbody") # <<>>}

\* C21: a finally clause in which a terminal statement is followed by another
\* statement has one dead_code issue, at the statement after the first
\* terminal statement.
C21_FinallyScanned ==
    AfterDeadCode =>
        \A n \in FinallyClauses :
            LET stmts == StmtList(tree.nodes, n, "finalbody")
                ft == FirstTerminal(stmts)
                hits == DeadCodeIssuesIn(stmts)
            IN  (ft # 0 /\ ft < Len(stmts)) =>
                    /\ Cardinality(hits) = 1
                    /\ \A i \in hits :
                          /\ issues[i].line = tree.nodes[stmts[ft + 1]].lineno
                          /\ issues[i].column = tree.nodes[stmts[ft + 1]].col_offset

\* a finally clause with a statement after a return, and the analysis has
\* returned without a dead_code issue
C21_FinallyNotScanned ==
    /\ pc = "done"
    /\ IssuesOfType("dead_code") = {}
    /\ \E n \in FinallyClauses :
          LET stmts == StmtList(tree.nodes, n, "finalbody")
          IN  /\ Len(stmts) >= 2
              /\ tree.nodes[stmts[1]].type = "Return"

\* no statement of a try statement's own clauses is ever reported
C21_TryClausesSilent ==
    AfterDeadCode =>
        \A n \in 1..Len(tree.nodes) :
            tree.nodes[n].type = "Try" =>
                \A k \in 1..Len(tree.nodes) :
                    tree.nodes[k].parent = n =>
                        IssuesAt("dead_code", tree.nodes[k].lineno,
                                 tree.nodes[k].col_offset) = {}

\* the first window recorded under h
FirstWindow(rec, h) ==
    rec[CHOOSE k \in WindowsOf(rec, h) : \A j \in WindowsOf(rec, h) : k <= j]

\* the source lines a recorded window spans, both ends included
SpannedLines(w) == w.location[2] - w.location[1] + 1

\* C22: the message of every duplicate_code issue states the number of source
\* lines the first recorded window of its hash spans (end line minus start
\* line plus one) and the number of windows recorded under that hash.
C22_DuplicateMessage ==
    AfterDuplicates =>
        \A i \in IssuesOfType("duplicate_code") :
            \E h \in RepeatedHashes(Recorded) :
                /\ FirstWindow(Recorded, h).location[1] = issues[i].line
                /\ issues[i].message.args[1] = SpannedLines(FirstWindow(Recorded, h))
                /\ issues[i].message.args[2] = Cardinality(WindowsOf(Recorded, h))

\* an issue states 4 lines although every recorded window spans 5 or more
C22_OneLineShort ==
    /\ pc = "done"
    /\ Recorded # <<>>
    /\ \A k \in 1..Len(Recorded) : SpannedLines(Recorded[k]) >= DefaultMinLines
    /\ \E i \in IssuesOfType("duplicate_code") :
          issues[i].message.args[1] = DefaultMinLines - 1

\* what the messages state: one line less than the window spans, and the
\* number of windows
C22_EndMinusStart ==
    AfterDuplicates =>
        \A i \in IssuesOfType("duplicate_code") :
            \E h \in RepeatedHashes(Recorded) :
                /\ FirstWindow(Recorded, h).location[1] = issues[i].line
                /\ issues[i].message.args[1] = SpannedLines(FirstWindow(Recorded, h)) - 1
                /\ issues[i].message.args[2] = Cardinality(WindowsOf(Recorded, h))

\* the line is "from MODULE import NAME, NAME, ..."
IsFromImport(line) ==
    LET toks == Tokenize(line)
    IN  /\ Len(toks) >= 4
        /\ IsKw(toks[1], k_from)
        /\ toks[2].kind = "name"
        /\ IsKw(toks[3], k_import)
        /\ \A k \in 4..Len(toks) :
              IF k % 2 = 0 THEN toks[k].kind = "name" ELSE IsOp(toks[k], ",")
        /\ toks[Len(toks)].kind = "name"

\* the names the from-import line lists, in order
ListedOn(line) ==
    LET toks == Tokenize(line)
        at == SelectSeq(IndexSeq(toks), LAMBDA k : k >= 4 /\ toks[k].kind = "name")
    IN  AsTuple([i \in 1..Len(at) |-> toks[at[i]].text])

\* the from-import line of the same module for the names
FromImportLine(line, names) ==
    k_from \o <<SP>> \o Tokenize(line)[2].text \o <<SP>> \o k_import \o <<SP>>
        \o CommaJoin(names)

RequestedNames ==
    {request.kwargs.unused_imports[k] : k \in 1..Len(request.kwargs.unused_imports)}

Removed == request.method = "remove_unused_imports" /\ result.success

OutputLines == PhysicalLines(result.refactored_code)

\* C23: a from-import line that lists several names, exactly one of them
\* among the names to remove, comes out as the from-import line of the same
\* module with the other names in their order, separated by commas.
C23_OneNameRemoved ==
    Removed =>
        \A l \in 1..Len(refactor.lines) :
            LET line == refactor.lines[l]
                rest == SelectSeq(ListedOn(line), LAMBDA n : n \notin RequestedNames)
            IN  (IsFromImport(line) /\ Len(ListedOn(line)) >= 2
                   /\ Len(rest) = Len(ListedOn(line)) - 1) =>
                    \E o \in 1..Len(OutputLines) :
                        OutputLines[o] = FromImportLine(line, rest)

\* the middle name of three was removed and the comma between the two
\* others went with it
C23_CommaLost ==
    /\ Removed
    /\ refactor.lines = <<<<"f","r","o","m",SP,"m",SP,"i","m","p","o","r","t",SP,"a",",",SP,"b",",",SP,"c">>>>
    /\ request.kwargs.unused_imports = <<(<<"b">>)>>
    /\ OutputLines = <<<<"f","r","o","m",SP,"m",SP,"i","m","p","o","r","t",SP,"a",SP,"c">>>>

\* C24: no from-import line of the output lists a name that was to be
\* removed, and a from-import line all of whose names were to be removed is
\* not in the output at all.
C24_ListedNamesGone ==
    Removed =>
        /\ \A o \in 1..Len(OutputLines) :
              IsFromImport(OutputLines[o]) =>
                  \A k \in 1..Len(ListedOn(OutputLines[o])) :
                      ListedOn(OutputLines[o])[k] \notin RequestedNames
        /\ (\A l \in 1..Len(refactor.lines) :
                /\ IsFromImport(refactor.lines[l])
                /\ \A k \in 1..Len(ListedOn(refactor.lines[l])) :
                      ListedOn(refactor.lines[l])[k] \in RequestedNames)
              => result.refactored_code = <<>>

\* both names of a from-import line were to be removed and the line is
\* still there, with one of them
C24_SecondNameKept ==
    /\ Removed
    /\ refactor.lines = <<<<"f","r","o","m",SP,"m",SP,"i","m","p","o","r","t",SP,"a",",",SP,"b">>>>
    /\ RequestedNames = {<<"a">>, <<"b">>}
    /\ \E o \in 1..Len(OutputLines) :
          IsFromImport(OutputLines[o]) /\ ListedOn(OutputLines[o])[1] \in RequestedNames

\* what holds of a line with several names: the first or the last name
\* alone is removed as claimed
C23_FirstOrLastRemoved ==
    Removed =>
        \A l \in 1..Len(refactor.lines) :
            LET line == refactor.lines[l]
                names == ListedOn(line)
                rest == SelectSeq(names, LAMBDA n : n \notin RequestedNames)
            IN  (IsFromImport(line) /\ Len(names) >= 2 /\ Len(rest) = Len(names) - 1
                   /\ Len(request.kwargs.unused_imports) = 1
                   /\ (names[1] \in RequestedNames \/ names[Len(names)] \in RequestedNames)) =>
                    \E o \in 1..Len(OutputLines) :
                        OutputLines[o] = FromImportLine(line, rest)

\* the name of the innermost callable definition, sync or async, that
\* encloses node n; NoScope at module level
RECURSIVE InnermostCallable(_, _)
InnermostCallable(t, n) ==
    LET parent == t[n].parent
    IN  IF parent = 0 THEN NoScope
        ELSE IF t[parent].type \in {"FunctionDef", "AsyncFunctionDef"} THEN t[parent].name
        ELSE InnermostCallable(t, parent)

\* the lines with an occurrence of old_name whose innermost enclosing
\* callable definition is named scope (every occurrence when scope is absent)
LinesInScope(t, old_name, scope) ==
    {t[n].lineno : n \in {m \in VariablePositions(t, old_name) :
                             scope = NoScope \/ InnermostCallable(t, m) = scope}}

RenameRequested == request.operation = "rename_variable"

ChangedLines ==
    {k \in 1..Len(PhysicalLines(request.source_code)) :
        \/ k > Len(OutputLines)
        \/ OutputLines[k] # PhysicalLines(request.source_code)[k]}

\* C25: rename_variable(old, new, scope=S) changes exactly the lines whose
\* occurrence of old has a callable definition named S, sync or async, as
\* its innermost enclosing one (every line with an occurrence when the
\* scope is absent), and fails with the text unchanged exactly when there
\* is no such occurrence.
C25_InnermostCallable ==
    RenameRequested =>
        LET inscope == LinesInScope(tree.nodes, request.kwargs.old_name, request.kwargs.scope)
        IN  /\ result.success <=> inscope # {}
            /\ result.success => ChangedLines = inscope
            /\ ~result.success => result.refactored_code = request.source_code

\* the rename of tmp in scope h failed on a text whose async h assigns tmp
C25_AsyncScopeNotFound ==
    /\ RenameRequested
    /\ request.source_code = TextOf(<<l_async_h, Indent(1, l_tmp)>>)
    /\ request.kwargs.scope = <<"h">>
    /\ ~result.success
    /\ result.refactored_code = request.source_code

\* what the code does: the scope of an occurrence is the innermost
\* enclosing definition made with a plain def
C25_InnermostPlainDef ==
    RenameRequested =>
        LET inscope == {tree.nodes[n].lineno :
                           n \in {m \in VariablePositions(tree.nodes, request.kwargs.old_name) :
                                     \/ request.kwargs.scope = NoScope
                                     \/ CurrentScope(tree.nodes, m) = request.kwargs.scope}}
        IN  /\ result.success <=> inscope # {}
            /\ result.success => ChangedLines = inscope
            /\ ~result.success => result.refactored_code = request.source_code

\* the line with new_name in place of the Len(old_name) characters at each
\* of the 0-based columns cols
RECURSIVE ReplacedAt(_, _, _, _)
ReplacedAt(line, cols, old_name, new_name) ==
    IF cols = {} THEN line
    ELSE LET c == CHOOSE c \in cols : \A d \in cols : d <= c
         IN  ReplacedAt(SubSeq(line, 1, c) \o new_name
                            \o SubSeq(line, c + Len(old_name) + 1, Len(line)),
                        cols \ {c}, old_name, new_name)

\* the columns of the occurrences that the finder records on line k
RecordedColumns(k) ==
    LET t == tree.nodes
        recorded == Occurrences(t, request.kwargs.old_name, request.kwargs.scope)
    IN  {t[recorded[i]].col_offset :
            i \in {j \in 1..Len(recorded) : t[recorded[j]].lineno = k}}

RenameSucceeded == RenameRequested /\ result.success

\* C26: after a successful rename_variable every line of the refactored
\* text is the line of the original with new in place of old at exactly the
\* recorded occurrences: other text that spells old (a parameter, an
\* attribute after a dot, a string, a comment) and the lines without a
\* recorded occurrence are unchanged.
C26_OnlyRecordedChanged ==
    RenameSucceeded =>
        /\ Len(OutputLines) = Len(refactor.lines)
        /\ \A k \in 1..Len(refactor.lines) :
              OutputLines[k] = ReplacedAt(refactor.lines[k], RecordedColumns(k),
                                          request.kwargs.old_name, request.kwargs.new_name)

\* the rename of tmp in  x = "tmp" + tmp  succeeded, changed the string
\* and left the variable
C26_StringRenamedInstead ==
    /\ RenameSucceeded
    /\ request.source_code = TextOf(<<(<<"x", SP, "=", SP>> \o q_tmp \o <<SP, "+", SP>> \o n_tmp)>>)
    /\ result.refactored_code =
           <<"x", SP, "=", SP, "\"">> \o n_total \o <<"\"", SP, "+", SP>> \o n_tmp

\* what holds: a line without a recorded occurrence is unchanged, and a
\* line with one has new for old at as many whole-word places, counted
\* from the left, as it has recorded occurrences
C26_UnrecordedLinesKept ==
    RenameSucceeded =>
        /\ Len(OutputLines) = Len(refactor.lines)
        /\ \A k \in 1..Len(refactor.lines) :
              OutputLines[k] = SubTimes(refactor.lines[k], request.kwargs.old_name,
                                        request.kwargs.new_name,
                                        Cardinality(RecordedColumns(k)))

\* str.split('\n'): the lines of a text, a last empty one included
SplitNewlines(s) ==
    LET ls == PhysicalLines(s \o <<"$">>)
    IN  [ls EXCEPT ![Len(ls)] = SubSeq(@, 1, Len(@) - 1)]

ExtractSucceeded == request.operation = "extract_method" /\ result.success

ExtractedCount == request.kwargs.end_line - request.kwargs.start_line + 1

\* the call that stands for the range: the name and () after as many
\* spaces as the first line of the range has leading white space
CallLine ==
    LET first == refactor.lines[request.kwargs.start_line]
    IN  Spaces(Len(first) - Len(LStrip(first))) \o request.kwargs.method_name \o <<"(", ")">>

\* the original lines with the range replaced by the call
WithCall ==
    SubSeq(refactor.lines, 1, request.kwargs.start_line - 1) \o <<CallLine>>
    \o SubSeq(refactor.lines, request.kwargs.end_line + 1, Len(refactor.lines))

IsBlankOrImport(line) ==
    \/ Strip(line) = <<>>
    \/ StartsWith(Strip(line), k_import)
    \/ StartsWith(Strip(line), k_from)

\* the number of leading lines that are blank or imports
RECURSIVE LeadingImports(_)
LeadingImports(lines) ==
    IF lines = <<>> \/ ~IsBlankOrImport(lines[1]) THEN 0
    ELSE 1 + LeadingImports(Tail(lines))

\* the output is the lines WithCall, with a definition of the name and
\* then `blanks` empty lines put in before the first line that is neither
\* blank nor an import
DefinitionInserted(blanks) ==
    LET out == SplitNewlines(result.refactored_code)
        p == LeadingImports(WithCall)
        d == 1 + ExtractedCount
    IN  /\ Len(out) = Len(WithCall) + d + blanks
        /\ SubSeq(out, 1, p) = SubSeq(WithCall, 1, p)
        /\ out[p + 1] = k_def \o <<SP>> \o request.kwargs.method_name \o <<"(", ")", ":">>
        /\ \A k \in 2..d : out[p + k] = <<>> \/ StartsWith(out[p + k], Spaces4)
        /\ \A k \in 1..blanks : out[p + d + k] = <<>>
        /\ SubSeq(out, p + d + blanks + 1, Len(out)) = SubSeq(WithCall, p + 1, Len(WithCall))

Content(line) == LStrip(line)

\* the lines of the range that are not blank, in order
RangeContent ==
    LET range == SubSeq(refactor.lines, request.kwargs.start_line, request.kwargs.end_line)
        kept == SelectSeq(range, LAMBDA line : Strip(line) # <<>>)
    IN  AsTuple([k \in 1..Len(kept) |-> Content(kept[k])])

\* the non-blank lines of the body of the new definition, in order
BodyContent ==
    LET out == SplitNewlines(result.refactored_code)
        p == LeadingImports(WithCall)
        body == SubSeq(out, p + 2, p + 1 + ExtractedCount)
        kept == SelectSeq(body, LAMBDA line : Strip(line) # <<>>)
    IN  AsTuple([k \in 1..Len(kept) |-> Content(kept[k])])

\* the output without the definition and its two blank lines
OutsideDefinition ==
    LET out == SplitNewlines(result.refactored_code)
        p == LeadingImports(WithCall)
    IN  SubSeq(out, 1, p) \o SubSeq(out, p + ExtractedCount + 4, Len(out))

\* C29: after a successful extract_method the body of the new definition
\* holds the non-blank lines of the range in order, each with its content
\* whole (only the leading white space differs), also when a later line is
\* indented less than the first; and the lines outside the range stand in
\* the output unchanged and in order, around the call.
C29_ContentPreserved ==
    ExtractSucceeded =>
        /\ BodyContent = RangeContent
        /\ OutsideDefinition = WithCall

\* lines 3-4 of the function were extracted, the second indented less
\* than the first: the body has "2" where the range had "y = 2"
C29_ShallowerLineCut ==
    /\ ExtractSucceeded
    /\ request.source_code =
           JoinLines(<<l_def_f, Indent(1, l_if_a), Indent(2, <<"x", SP, "=", SP, "1">>),
                       Indent(1, <<"y", SP, "=", SP, "2">>)>>)
    /\ request.kwargs.start_line = 3
    /\ request.kwargs.end_line = 4
    /\ BodyContent = <<(<<"x", SP, "=", SP, "1">>), (<<"2">>)>>

\* what holds: the lines outside the range are kept, and a line of the
\* range indented at least as much as the first keeps its content
C29_DeeperLinesKept ==
    ExtractSucceeded =>
        /\ OutsideDefinition = WithCall
        /\ LET range == SubSeq(refactor.lines, request.kwargs.start_line, request.kwargs.end_line)
               base == Len(range[1]) - Len(LStrip(range[1]))
           IN  (\A k \in 1..Len(range) :
                   Strip(range[k]) = <<>> \/ Len(range[k]) - Len(LStrip(range[k])) >= base)
               => BodyContent = RangeContent

\* the lines of the text that are neither blank nor comments, trimmed
ContentLines ==
    LET stripped == AsTuple([k \in 1..Len(SourceLines) |-> Strip(SourceLines[k])])
    IN  SelectSeq(stripped, LAMBDA line : line # <<>> /\ line[1] # "#")

AllContentDiffers ==
    \A j, k \in 1..Len(ContentLines) : j # k => ContentLines[j] # ContentLines[k]

\* C28: when every line of the text that is neither blank nor a comment
\* differs from every other, analyze emits no duplicate_code issue, however
\* blank and comment lines stand between them.
C28_NoSpuriousDuplicate ==
    (AfterDuplicates /\ AllContentDiffers) => IssuesOfType("duplicate_code") = {}

\* five different lines and a blank line after them: a duplicate_code
\* issue at line 1
C28_BlankLineDuplicates ==
    /\ pc = "done"
    /\ source_code = TextOf(<<(<<"a">>), (<<"b">>), (<<"c">>), (<<"d">>), (<<"e">>), (<<>>)>>)
    /\ AllContentDiffers
    /\ \E i \in IssuesOfType("duplicate_code") : issues[i].line = 1

\* what holds: without a blank or comment line in the text, lines that
\* all differ give no duplicate_code issue
C28_NoGapsNoDuplicate ==
    (/\ AfterDuplicates
     /\ AllContentDiffers
     /\ Len(ContentLines) = Len(SourceLines))
        => IssuesOfType("duplicate_code") = {}

\* C30: format_code applied to the text that format_code returned returns
\* that text unchanged.
C30_Idempotent ==
    [][ApplyFormatAgain => result'.refactored_code = result.refactored_code]_vars

\* x = 1 and two line ends was formatted to x = 1 and one line end, and
\* that to x = 1
C30_SecondPassDropsNewline ==
    /\ source_code = <<"x", SP, "=", SP, "1", NL, NL>>
    /\ request.operation = "format_code"
    /\ request.source_code = <<"x", SP, "=", SP, "1", NL>>
    /\ result.refactored_code = <<"x", SP, "=", SP, "1">>

\* what holds: the second application returns the lines of the first
C30_SameLines ==
    [][ApplyFormatAgain =>
          SplitLines(result'.refactored_code) = SplitLines(result.refactored_code)]_vars

\* and the text that does not end in a blank line is formatted to a text
\* that format_code returns unchanged
C30_IdempotentWithoutLastBlank ==
    [][(/\ ApplyFormatAgain
        /\ refactor.lines # <<>>
        /\ Strip(refactor.lines[Len(refactor.lines)]) # <<>>)
          => result'.refactored_code = result.refactored_code]_vars

=============================================================================
